---- MODULE Spec2Model ----
(***************************************************************************)
(* Resume analyzer: the response sanitizer, the analysis orchestrator,     *)
(* the persistence gateway and the HTTP handlers of the backend, and the   *)
(* ResumeUploader and PastResumes components of the frontend, modelled     *)
(* from the JavaScript sources.                                            *)
(*                                                                         *)
(* JavaScript strings are TLA+ strings.  A decoded JSON value is a record  *)
(* [k |-> kind, v |-> payload]:                                            *)
(*   null    [k |-> "null", v |-> 0]                                       *)
(*   boolean [k |-> "bool", v |-> TRUE / FALSE]                            *)
(*   number  [k |-> "num",  v |-> t]   the number t/10 (one decimal digit) *)
(*   string  [k |-> "str",  v |-> "..."]                                   *)
(*   array   [k |-> "arr",  v |-> << value, ... >>]                        *)
(*   object  [k |-> "obj",  v |-> [key |-> value, ...]]                    *)
(* A property an object does not have reads as Undefined.                  *)
(***************************************************************************)
EXTENDS Integers, Sequences, FiniteSets, TLC

VARIABLES
    ratingIn,    \* the value handed to validateRating
    ratingOut,   \* its result, 0 while not yet computed
    sanIn,       \* the decoded object handed to validateAndSanitizeAnalysis
    sanOut,      \* its outcome: [done, threw, value]
    resumes,     \* the resumes table: id -> row
    nextId,      \* the SERIAL sequence behind resumes.id
    clock,       \* CURRENT_TIMESTAMP of the database
    nodeEnv,     \* process.env.NODE_ENV
    apiKeySet,   \* whether process.env.GOOGLE_API_KEY is set
    request,     \* the last request and what its collaborators answered
    stages,      \* the pipeline stages the last upload request ran
    response,    \* the last HTTP response written
    uploader,    \* the state of the ResumeUploader component and the files
                 \* it handed to onUpload
    pastResumes, \* the props and the state of the PastResumes table
    confirm,     \* the confirm state of PastResumes: the delete dialog
    deleting,    \* the calls of the onDelete prop that have not settled
    app,         \* the state of the App component and its requests in flight
    retry,       \* one call of retryApiCall
    pool         \* the connection pool of the persistence gateway

serverVars == << resumes, nextId, clock, nodeEnv, apiKeySet, request, stages, response >>

pureVars == << ratingIn, ratingOut, sanIn, sanOut >>

clientVars == << uploader, pastResumes >>

\* the variables of the remaining components
otherVars == << confirm, deleting, app, retry, pool >>

vars == << pureVars, serverVars, clientVars, otherVars >>

-----------------------------------------------------------------------------
(* Bounds of the model *)

MaxStrLen == 3        \* longest rating string enumerated
MaxRatingTenths == 125  \* rating numbers range over -2.0 .. 12.5
MaxRows == 2          \* uploads accepted by the table in one behaviour

-----------------------------------------------------------------------------
(* JavaScript strings *)

Char(s, i) == SubSeq(s, i, i)

Min(S) == CHOOSE x \in S : \A y \in S : x <= y
Max(S) == CHOOSE x \in S : \A y \in S : x >= y

\* String.prototype.includes
Includes(s, needle) ==
    \E i \in 0..(Len(s) - Len(needle)) : SubSeq(s, i + 1, i + Len(needle)) = needle

\* String.prototype.startsWith at a 1-based position
StartsWithAt(s, i, p) ==
    /\ i + Len(p) - 1 <= Len(s)
    /\ SubSeq(s, i, i + Len(p) - 1) = p

\* String.prototype.indexOf / lastIndexOf for a one-character needle (0-based, -1 if absent)
IndexOf(s, c) ==
    LET hits == {i \in 1..Len(s) : Char(s, i) = c}
    IN  IF hits = {} THEN -1 ELSE Min(hits) - 1

LastIndexOf(s, c) ==
    LET hits == {i \in 1..Len(s) : Char(s, i) = c}
    IN  IF hits = {} THEN -1 ELSE Max(hits) - 1

WhiteSpace == {" ", "\n", "\t", "\r"}

\* the first position from i on / the last position up to i that holds no
\* white space
RECURSIVE SolidFrom(_, _)
SolidFrom(s, i) ==
    IF i > Len(s) \/ Char(s, i) \notin WhiteSpace THEN i ELSE SolidFrom(s, i + 1)

RECURSIVE SolidUpTo(_, _)
SolidUpTo(s, i) ==
    IF i < 1 \/ Char(s, i) \notin WhiteSpace THEN i ELSE SolidUpTo(s, i - 1)

\* String.prototype.trim
Trim(s) == SubSeq(s, SolidFrom(s, 1), SolidUpTo(s, Len(s)))

\* String.prototype.substring(0, n)
Substring0(s, n) == IF n >= Len(s) THEN s ELSE SubSeq(s, 1, n)

\* a string of n copies of c (n >= 0), built by halving
RECURSIVE Rep(_, _)
Rep(c, n) ==
    IF n = 0 THEN ""
    ELSE LET h == Rep(c, n \div 2)
         IN  IF n % 2 = 0 THEN h \o h ELSE h \o h \o c

Digits == <<"0", "1", "2", "3", "4", "5", "6", "7", "8", "9">>

DigitChars == {Digits[i] : i \in 1..10}

HexChars == DigitChars \cup {"a", "b", "c", "d", "e", "f", "A", "B", "C", "D", "E", "F"}

DigitVal(c) ==
    IF c \in DigitChars THEN (CHOOSE i \in 1..10 : Digits[i] = c) - 1
    ELSE CASE c \in {"a", "A"} -> 10
           [] c \in {"b", "B"} -> 11
           [] c \in {"c", "C"} -> 12
           [] c \in {"d", "D"} -> 13
           [] c \in {"e", "E"} -> 14
           [] c \in {"f", "F"} -> 15

\* decimal text of a natural number
RECURSIVE NatToString(_)
NatToString(n) ==
    IF n < 10 THEN Digits[n + 1] ELSE NatToString(n \div 10) \o Digits[(n % 10) + 1]

-----------------------------------------------------------------------------
(* Decoded JSON values *)

Null == [k |-> "null", v |-> 0]
Bool(b) == [k |-> "bool", v |-> b]
Num(t) == [k |-> "num", v |-> t]
IntNum(n) == Num(10 * n)
Str(s) == [k |-> "str", v |-> s]
Arr(q) == [k |-> "arr", v |-> q]
Obj(f) == [k |-> "obj", v |-> f]
Undefined == [k |-> "undefined", v |-> 0]

EmptyObj == Obj([x \in {} |-> Null])

\* obj.key on any value: only objects carry the properties the code reads,
\* except length, which strings and arrays have too
Prop(x, key) ==
    CASE x.k = "obj" -> IF key \in DOMAIN x.v THEN x.v[key] ELSE Undefined
      [] x.k \in {"str", "arr"} /\ key = "length" -> IntNum(Len(x.v))
      [] OTHER -> Undefined

\* property access throws a TypeError on null and undefined
ThrowsOnRead(x) == x.k \in {"null", "undefined"}

\* ToBoolean
Truthy(x) ==
    CASE x.k \in {"null", "undefined"} -> FALSE
      [] x.k = "bool" -> x.v
      [] x.k = "num" -> x.v # 0
      [] x.k = "str" -> x.v # ""
      [] OTHER -> TRUE

\* a || b
OrElse(a, b) == IF Truthy(a) THEN a ELSE b

IsArray(x) == x.k = "arr"

\* Number::toString of t/10
NumToString(t) ==
    LET m == IF t < 0 THEN -t ELSE t
        body == NatToString(m \div 10) \o
                (IF m % 10 = 0 THEN "" ELSE "." \o Digits[(m % 10) + 1])
    IN  IF t < 0 THEN "-" \o body ELSE body

\* ToString of a decoded JSON value (Array.prototype.join for arrays)
RECURSIVE JsToString(_)
RECURSIVE JoinFrom(_, _)
JoinFrom(q, i) ==
    IF i > Len(q) THEN ""
    ELSE (IF i > 1 THEN "," ELSE "") \o
         (IF q[i].k \in {"null", "undefined"} THEN "" ELSE JsToString(q[i])) \o
         JoinFrom(q, i + 1)

JsToString(x) ==
    CASE x.k = "null" -> "null"
      [] x.k = "undefined" -> "undefined"
      [] x.k = "bool" -> IF x.v THEN "true" ELSE "false"
      [] x.k = "num" -> NumToString(x.v)
      [] x.k = "str" -> x.v
      [] x.k = "arr" -> JoinFrom(x.v, 1)
      [] x.k = "obj" -> "[object Object]"

-----------------------------------------------------------------------------
(* parseInt *)

NaN == [nan |-> TRUE, n |-> 0]
Number(n) == [nan |-> FALSE, n |-> n]

\* value of the longest prefix of radix digits of s starting at position i;
\* acc is the value read so far, any whether a digit was read
RECURSIVE ReadDigits(_, _, _, _, _)
ReadDigits(s, i, radix, acc, any) ==
    IF i <= Len(s)
       /\ Char(s, i) \in (IF radix = 16 THEN HexChars ELSE DigitChars)
    THEN ReadDigits(s, i + 1, radix, acc * radix + DigitVal(Char(s, i)), TRUE)
    ELSE IF any THEN Number(acc) ELSE NaN

\* parseInt(string) with no radix argument
ParseIntStr(s0) ==
    LET solid == {i \in 1..Len(s0) : Char(s0, i) \notin WhiteSpace}
        b == IF solid = {} THEN Len(s0) + 1 ELSE Min(solid)
        neg == b <= Len(s0) /\ Char(s0, b) = "-"
        signed == b <= Len(s0) /\ Char(s0, b) \in {"-", "+"}
        d == IF signed THEN b + 1 ELSE b
        hex == StartsWithAt(s0, d, "0x") \/ StartsWithAt(s0, d, "0X")
        r == IF hex THEN ReadDigits(s0, d + 2, 16, 0, FALSE)
             ELSE ReadDigits(s0, d, 10, 0, FALSE)
    IN  IF r.nan THEN NaN ELSE Number(IF neg THEN -r.n ELSE r.n)

\* parseInt(value): the argument is converted with ToString first
ParseInt(x) == ParseIntStr(JsToString(x))

(* validateRating mutated: the upper clamp is lost *)
validateRatingNoUpper(rating) ==
    LET numRating == ParseInt(rating)
    IN  IF numRating.nan \/ numRating.n < 1 THEN 1 ELSE numRating.n

validateRating(rating) ==
    LET numRating == ParseInt(rating)
    IN  IF numRating.nan \/ numRating.n < 1 THEN 1
        ELSE IF numRating.n > 10 THEN 10
        ELSE numRating.n

-----------------------------------------------------------------------------
(* JSON text: JSON.parse and JSON.stringify                                *)
(* Numbers of the texts in the model carry at most one fractional digit    *)
(* and no exponent; \u escapes do not occur.                               *)

\* the outcome of a call that may throw
Returned(x) == [threw |-> FALSE, value |-> x]
Threw == [threw |-> TRUE, value |-> Undefined]

Failed == [ok |-> FALSE, val |-> Null, pos |-> 0]
Parsed(x, p) == [ok |-> TRUE, val |-> x, pos |-> p]

\* the first position from i on that holds no white space
RECURSIVE SkipWs(_, _)
SkipWs(s, i) ==
    IF i <= Len(s) /\ Char(s, i) \in WhiteSpace THEN SkipWs(s, i + 1) ELSE i

\* the characters of a string literal from position i up to its closing quote
RECURSIVE ParseChars(_, _, _)
ParseChars(s, i, acc) ==
    IF i > Len(s) THEN Failed
    ELSE LET c == Char(s, i) IN
         CASE c = "\"" -> Parsed(Str(acc), i + 1)
           [] c \in {"\n", "\t", "\r"} -> Failed
           [] c = "\\" ->
                IF i + 1 > Len(s) THEN Failed
                ELSE LET e == Char(s, i + 1) IN
                     CASE e \in {"\"", "\\", "/"} -> ParseChars(s, i + 2, acc \o e)
                       [] e = "n" -> ParseChars(s, i + 2, acc \o "\n")
                       [] e = "t" -> ParseChars(s, i + 2, acc \o "\t")
                       [] e = "r" -> ParseChars(s, i + 2, acc \o "\r")
                       [] OTHER -> Failed
           [] OTHER ->
                \* the run of characters that stand for themselves is read at once
                LET stops == {j \in i..Len(s) :
                                 Char(s, j) \in {"\"", "\\", "\n", "\t", "\r"}}
                    end == IF stops = {} THEN Len(s) + 1 ELSE Min(stops)
                IN  ParseChars(s, end, acc \o SubSeq(s, i, end - 1))

\* the end of the run of decimal digits starting at i (i itself if there is none)
RECURSIVE DigitsEnd(_, _)
DigitsEnd(s, i) ==
    IF i <= Len(s) /\ Char(s, i) \in DigitChars THEN DigitsEnd(s, i + 1) ELSE i

\* a number literal at position i: -? int frac?
ParseNumber(s, i) ==
    LET neg == Char(s, i) = "-"
        d == IF neg THEN i + 1 ELSE i
        run == DigitsEnd(s, d)
        \* a leading 0 is the whole integer part
        ie == IF d <= Len(s) /\ Char(s, d) = "0" THEN d + 1 ELSE run
        hasFrac == ie <= Len(s) /\ Char(s, ie) = "."
        fe == IF hasFrac THEN DigitsEnd(s, ie + 1) ELSE ie
        whole == ReadDigits(s, d, 10, 0, FALSE)
        intPart == IF ie = d + 1 THEN DigitVal(Char(s, d)) ELSE whole.n
        tenths == IF hasFrac THEN DigitVal(Char(s, ie + 1)) ELSE 0
        t == 10 * intPart + tenths
    IN  IF d > Len(s) \/ ie = d \/ (hasFrac /\ fe = ie + 1) THEN Failed
        ELSE Parsed(Num(IF neg THEN 0 - t ELSE t), fe)

RECURSIVE ParseValue(_, _)
RECURSIVE ParseElements(_, _, _)
RECURSIVE ParseMembers(_, _, _)

\* the elements of an array after "[" or ",": acc holds those read so far
ParseElements(s, i, acc) ==
    LET e == ParseValue(s, i) IN
    IF ~e.ok THEN Failed
    ELSE LET j == SkipWs(s, e.pos) IN
         IF j > Len(s) THEN Failed
         ELSE CASE Char(s, j) = "," -> ParseElements(s, j + 1, Append(acc, e.val))
                [] Char(s, j) = "]" -> Parsed(Arr(Append(acc, e.val)), j + 1)
                [] OTHER -> Failed

\* the members of an object after "{" or ",": a later duplicate key wins
ParseMembers(s, i, acc) ==
    LET j == SkipWs(s, i) IN
    IF j > Len(s) \/ Char(s, j) # "\"" THEN Failed
    ELSE LET key == ParseChars(s, j + 1, "") IN
         IF ~key.ok THEN Failed
         ELSE LET c == SkipWs(s, key.pos) IN
              IF c > Len(s) \/ Char(s, c) # ":" THEN Failed
              ELSE LET m == ParseValue(s, c + 1) IN
                   IF ~m.ok THEN Failed
                   ELSE LET n == SkipWs(s, m.pos)
                            now == (key.val.v :> m.val) @@ acc
                        IN  IF n > Len(s) THEN Failed
                            ELSE CASE Char(s, n) = "," -> ParseMembers(s, n + 1, now)
                                   [] Char(s, n) = "}" -> Parsed(Obj(now), n + 1)
                                   [] OTHER -> Failed

ParseValue(s, i) ==
    LET j == SkipWs(s, i) IN
    IF j > Len(s) THEN Failed
    ELSE LET c == Char(s, j) IN
         CASE c = "{" ->
                LET n == SkipWs(s, j + 1) IN
                IF n <= Len(s) /\ Char(s, n) = "}" THEN Parsed(EmptyObj, n + 1)
                ELSE ParseMembers(s, j + 1, EmptyObj.v)
           [] c = "[" ->
                LET n == SkipWs(s, j + 1) IN
                IF n <= Len(s) /\ Char(s, n) = "]" THEN Parsed(Arr(<< >>), n + 1)
                ELSE ParseElements(s, j + 1, << >>)
           [] c = "\"" -> ParseChars(s, j + 1, "")
           [] c = "-" \/ c \in DigitChars -> ParseNumber(s, j)
           [] StartsWithAt(s, j, "null") -> Parsed(Null, j + 4)
           [] StartsWithAt(s, j, "true") -> Parsed(Bool(TRUE), j + 4)
           [] StartsWithAt(s, j, "false") -> Parsed(Bool(FALSE), j + 5)
           [] OTHER -> Failed

\* JSON.parse(text): a SyntaxError unless the whole text is one value
JSONparse(s) ==
    LET r == ParseValue(s, 1) IN
    IF r.ok /\ SkipWs(s, r.pos) > Len(s) THEN Returned(r.val) ELSE Threw

\* JSON.parse(x) of any value: the argument is converted with ToString first
JSONparseValue(x) == JSONparse(JsToString(x))

RECURSIVE Escape(_, _)
Escape(s, i) ==
    IF i > Len(s) THEN ""
    ELSE LET c == Char(s, i) IN
         (CASE c = "\"" -> "\\\""
            [] c = "\\" -> "\\\\"
            [] c = "\n" -> "\\n"
            [] c = "\t" -> "\\t"
            [] c = "\r" -> "\\r"
            [] OTHER -> c) \o Escape(s, i + 1)

Quote(s) == "\"" \o Escape(s, 1) \o "\""

\* the keys of an object in some fixed order (a JSONB column does not keep
\* the order JavaScript wrote them in)
RECURSIVE KeysOf(_)
KeysOf(S) ==
    IF S = {} THEN << >>
    ELSE LET key == CHOOSE x \in S : TRUE IN <<key>> \o KeysOf(S \ {key})

RECURSIVE JSONstringify(_)
RECURSIVE StringifyElements(_, _)
RECURSIVE StringifyMembers(_, _, _, _)

\* inside an array undefined is written as null
StringifyElements(q, i) ==
    IF i > Len(q) THEN ""
    ELSE (IF i > 1 THEN "," ELSE "") \o
         (IF q[i].k = "undefined" THEN "null" ELSE JSONstringify(q[i])) \o
         StringifyElements(q, i + 1)

\* a member whose value is undefined is left out
StringifyMembers(f, keys, i, first) ==
    IF i > Len(keys) THEN ""
    ELSE IF f[keys[i]].k = "undefined" THEN StringifyMembers(f, keys, i + 1, first)
    ELSE (IF first THEN "" ELSE ",") \o Quote(keys[i]) \o ":" \o
         JSONstringify(f[keys[i]]) \o StringifyMembers(f, keys, i + 1, FALSE)

JSONstringify(x) ==
    CASE x.k = "null" -> "null"
      [] x.k = "bool" -> IF x.v THEN "true" ELSE "false"
      [] x.k = "num" -> NumToString(x.v)
      [] x.k = "str" -> Quote(x.v)
      [] x.k = "arr" -> "[" \o StringifyElements(x.v, 1) \o "]"
      [] x.k = "obj" -> "{" \o StringifyMembers(x.v, KeysOf(DOMAIN x.v), 1, TRUE) \o "}"

-----------------------------------------------------------------------------
(* The response sanitizer *)

SummaryCap == 1000
SummaryKeep == 997
ImprovementCap == 2000
ImprovementKeep == 1997

\* x.length > cap, for the lengths the model produces: a number or undefined
LengthOver(x, cap) ==
    LET l == Prop(x, "length") IN l.k = "num" /\ l.v > 10 * cap

(* the length cap mutated: the whole cap is kept before the ellipsis *)
capTextKeepsCap(x, cap, keep) ==
    IF Truthy(x) /\ LengthOver(x, cap)
    THEN IF x.k = "str" THEN Returned(Str(Substring0(x.v, cap) \o "..."))
         ELSE Threw
    ELSE Returned(x)

\* if (text && text.length > cap) text = text.substring(0, keep) + '...'
\* substring is a method of strings only: on another value with a large
\* length the call is a TypeError
capText(x, cap, keep) ==
    IF Truthy(x) /\ LengthOver(x, cap)
    THEN IF x.k = "str" THEN Returned(Str(Substring0(x.v, keep) \o "..."))
         ELSE Threw
    ELSE Returned(x)

(* the list default mutated: a value that is no array becomes null *)
arrayOrNull(x) == IF IsArray(x) THEN x ELSE Null

\* Array.isArray(x) ? x : []
arrayOrEmpty(x) == IF IsArray(x) THEN x ELSE Arr(<< >>)

sanitizeWorkExperience(exp) ==
    LET d == Prop(exp, "description") IN
    Obj([role |-> OrElse(Prop(exp, "role"), Str("Not specified")),
         company |-> OrElse(Prop(exp, "company"), Str("Not specified")),
         duration |-> OrElse(Prop(exp, "duration"), Str("Not specified")),
         description |-> IF IsArray(d) THEN d
                         ELSE IF Truthy(d) THEN Arr(<<d>>)
                         ELSE Arr(<<Str("No description provided")>>)])

sanitizeEducation(edu) ==
    Obj([degree |-> OrElse(Prop(edu, "degree"), Str("Not specified")),
         institution |-> OrElse(Prop(edu, "institution"), Str("Not specified")),
         graduation_year |-> OrElse(Prop(edu, "graduation_year"), Str("Not specified"))])

sanitizeProject(project) ==
    Obj([name |-> OrElse(Prop(project, "name"), Str("Unnamed Project")),
         description |-> OrElse(Prop(project, "description"), Str("No description provided")),
         technologies |-> arrayOrEmpty(Prop(project, "technologies"))])

sanitizeCertification(cert) ==
    Obj([name |-> OrElse(Prop(cert, "name"), Str("Not specified")),
         issuer |-> OrElse(Prop(cert, "issuer"), Str("Not specified")),
         year |-> OrElse(Prop(cert, "year"), Str("Not specified"))])

\* list.map(item => ...) reading properties of every item: a TypeError when
\* list has no map method or an item is null
MapThrows(list) ==
    \/ ~IsArray(list)
    \/ \E i \in 1..Len(list.v) : ThrowsOnRead(list.v[i])

validateAndSanitizeAnalysis(analysis) ==
    LET work == arrayOrEmpty(Prop(analysis, "work_experience"))
        edu == arrayOrEmpty(Prop(analysis, "education"))
        proj == arrayOrEmpty(Prop(analysis, "projects"))
        cert == arrayOrEmpty(Prop(analysis, "certifications"))
        summary == capText(OrElse(Prop(analysis, "summary"), Null),
                           SummaryCap, SummaryKeep)
        areas == capText(OrElse(Prop(analysis, "improvement_areas"),
                                Str("No specific improvement areas identified.")),
                         ImprovementCap, ImprovementKeep)
    IN  IF \/ MapThrows(work) \/ MapThrows(edu) \/ MapThrows(proj) \/ MapThrows(cert)
           \/ summary.threw \/ areas.threw
        THEN Threw
        ELSE Returned(Obj(
          [name |-> OrElse(Prop(analysis, "name"), Null),
           email |-> OrElse(Prop(analysis, "email"), Null),
           phone |-> OrElse(Prop(analysis, "phone"), Null),
           linkedin_url |-> OrElse(Prop(analysis, "linkedin_url"), Null),
           portfolio_url |-> OrElse(Prop(analysis, "portfolio_url"), Null),
           summary |-> summary.value,
           work_experience |->
               Arr([i \in 1..Len(work.v) |-> sanitizeWorkExperience(work.v[i])]),
           education |->
               Arr([i \in 1..Len(edu.v) |-> sanitizeEducation(edu.v[i])]),
           technical_skills |-> arrayOrEmpty(Prop(analysis, "technical_skills")),
           soft_skills |-> arrayOrEmpty(Prop(analysis, "soft_skills")),
           projects |->
               Arr([i \in 1..Len(proj.v) |-> sanitizeProject(proj.v[i])]),
           certifications |->
               Arr([i \in 1..Len(cert.v) |-> sanitizeCertification(cert.v[i])]),
           resume_rating |-> IntNum(validateRating(Prop(analysis, "resume_rating"))),
           improvement_areas |-> areas.value,
           upskill_suggestions |-> arrayOrEmpty(Prop(analysis, "upskill_suggestions"))]))

-----------------------------------------------------------------------------
(* Errors *)

NoError == [name |-> "", message |-> "", statusCode |-> 0, code |-> "",
            isOperational |-> FALSE, hasStack |-> FALSE]

\* new AppError(message, statusCode)
AppError(message, statusCode) ==
    [name |-> "AppError", message |-> message, statusCode |-> statusCode,
     code |-> "", isOperational |-> TRUE, hasStack |-> TRUE]

\* an error raised by a collaborator or by the runtime
RawError(name, message, code) ==
    [name |-> name, message |-> message, statusCode |-> 0, code |-> code,
     isOperational |-> FALSE, hasStack |-> TRUE]

Ok(x) == [ok |-> TRUE, value |-> x, error |-> NoError]
Fail(e) == [ok |-> FALSE, value |-> Undefined, error |-> e]

-----------------------------------------------------------------------------
(* The analysis orchestrator *)

MinTextLength == 50

\* the outcome of the extraction collaborator: text, or an error message
PdfText(text) == [ok |-> TRUE, text |-> text, message |-> ""]
PdfError(message) == [ok |-> FALSE, text |-> "", message |-> message]

\* the length test on the text as extracted, not trimmed
extractTextFromPDFUntrimmed(pdf) ==
    IF pdf.ok
    THEN IF pdf.text = "" \/ Len(Trim(pdf.text)) = 0
         THEN Fail(AppError("PDF appears to be empty or contains only images. Please upload a PDF with text content.", 400))
         ELSE IF Len(pdf.text) < MinTextLength
         THEN Fail(AppError("PDF contains very little text content. Please ensure the PDF is a proper resume document.", 400))
         ELSE Ok(pdf.text)
    ELSE IF Includes(pdf.message, "Invalid PDF")
         THEN Fail(AppError("Invalid PDF file format. Please upload a valid PDF document.", 400))
    ELSE IF Includes(pdf.message, "password") \/ Includes(pdf.message, "encrypted")
         THEN Fail(AppError("PDF is password protected or encrypted. Please upload an unprotected PDF.", 400))
    ELSE IF Includes(pdf.message, "damaged") \/ Includes(pdf.message, "corrupted")
         THEN Fail(AppError("PDF file appears to be corrupted. Please try uploading a different file.", 400))
    ELSE Fail(AppError("PDF parsing failed. Please ensure the file is a valid PDF document.", 400))

extractTextFromPDF(pdf) ==
    IF pdf.ok
    THEN IF pdf.text = "" \/ Len(Trim(pdf.text)) = 0
         THEN Fail(AppError("PDF appears to be empty or contains only images. Please upload a PDF with text content.", 400))
         ELSE IF Len(Trim(pdf.text)) < MinTextLength
         THEN Fail(AppError("PDF contains very little text content. Please ensure the PDF is a proper resume document.", 400))
         ELSE Ok(pdf.text)
    ELSE IF Includes(pdf.message, "Invalid PDF")
         THEN Fail(AppError("Invalid PDF file format. Please upload a valid PDF document.", 400))
    ELSE IF Includes(pdf.message, "password") \/ Includes(pdf.message, "encrypted")
         THEN Fail(AppError("PDF is password protected or encrypted. Please upload an unprotected PDF.", 400))
    ELSE IF Includes(pdf.message, "damaged") \/ Includes(pdf.message, "corrupted")
         THEN Fail(AppError("PDF file appears to be corrupted. Please try uploading a different file.", 400))
    ELSE Fail(AppError("PDF parsing failed. Please ensure the file is a valid PDF document.", 400))

\* the outcome of the AI collaborator: response text, or an error
AiText(text) == [ok |-> TRUE, text |-> text, message |-> "", code |-> ""]
AiError(message, code) == [ok |-> FALSE, text |-> "", message |-> message, code |-> code]

\* the code-fence marker of three backquotes; the texts of the model write
\* a backquote as '
Fence == "'''"

\* s.replace(/<fence>\n?/g, ''): every occurrence, left to right
RECURSIVE RemoveFence(_, _)
RemoveFence(s, fence) ==
    LET hits == {i \in 1..Len(s) : StartsWithAt(s, i, fence)} IN
    IF hits = {} THEN s
    ELSE LET i == Min(hits)
             j == i + Len(fence)
             k == IF j <= Len(s) /\ Char(s, j) = "\n" THEN j + 1 ELSE j
         IN  SubSeq(s, 1, i - 1) \o
             (IF k > Len(s) THEN "" ELSE RemoveFence(SubSeq(s, k, Len(s)), fence))

\* s.substring(a, b) with 0-based bounds: the two are swapped when a > b
Substring(s, a, b) ==
    LET lo == IF a <= b THEN a ELSE b
        hi == IF a <= b THEN b ELSE a
    IN  IF lo >= hi THEN "" ELSE SubSeq(s, lo + 1, hi)

\* the catch block of analyzeWithAI
classifyAIError(error) ==
    IF error.name = "AppError" THEN error
    ELSE IF Includes(error.message, "API key")
         THEN AppError("AI service configuration error. Please contact support.", 500)
    ELSE IF Includes(error.message, "quota") \/ Includes(error.message, "QUOTA_EXCEEDED")
         THEN AppError("AI service temporarily unavailable due to usage limits. Please try again later.", 503)
    ELSE IF Includes(error.message, "RATE_LIMIT")
         THEN AppError("Too many requests. Please wait a moment and try again.", 429)
    ELSE IF Includes(error.message, "timeout") \/ error.code = "ECONNRESET"
         THEN AppError("AI analysis is taking longer than expected. Please try again.", 408)
    ELSE AppError("AI analysis service is temporarily unavailable. Please try again later.", 503)

\* the response text without its code fences
cleanResponse(text) == RemoveFence(RemoveFence(Trim(text), Fence \o "json"), Fence)

\* JSON.parse of the extracted text, rethrown as an AppError when it throws
parseExtracted(parsed) ==
    IF parsed.threw
    THEN Fail(AppError("AI returned invalid JSON format. Please try again.", 500))
    ELSE Ok(parsed.value)

\* the text from the first { to the last } of the cleaned response, parsed
parseCleaned(clean) ==
    LET firstBrace == IndexOf(clean, "{")
        lastBrace == LastIndexOf(clean, "}")
    IN  IF firstBrace = -1 \/ lastBrace = -1
        THEN Fail(AppError("AI did not return a valid JSON response.", 500))
        ELSE parseExtracted(JSONparse(Substring(clean, firstBrace, lastBrace + 1)))

\* the sanitizer's result, a TypeError when it throws
sanitizeOutcome(sanitized) ==
    [ran |-> <<"invoke", "parse", "sanitize">>] @@
    (IF sanitized.threw
     THEN Fail(RawError("TypeError", "Cannot read properties of null (reading 'role')", ""))
     ELSE Ok(sanitized.value))

sanitizeParsed(parsed) ==
    IF ~parsed.ok THEN [ran |-> <<"invoke", "parse">>] @@ parsed
    ELSE sanitizeOutcome(validateAndSanitizeAnalysis(parsed.value))

\* the try block of analyzeWithAI: [ok, value, error, ran], error the one
\* thrown and ran the stages that were entered
analyzeWithAITry(ai, keySet) ==
    IF ~keySet
    THEN [ran |-> << >>] @@
         Fail(AppError("Google AI API key not configured. Please contact support.", 500))
    ELSE IF ~ai.ok
    THEN [ran |-> <<"invoke">>] @@ Fail(RawError("Error", ai.message, ai.code))
    ELSE sanitizeParsed(parseCleaned(cleanResponse(ai.text)))

\* the thrown error through the catch block
analyzeWithAICatch(tried) ==
    IF tried.ok THEN tried ELSE [tried EXCEPT !.error = classifyAIError(@)]

analyzeWithAI(ai, keySet) == analyzeWithAICatch(analyzeWithAITry(ai, keySet))

\* the length from which the list shows a cut improvement text
PreviewLength == 100

\* what the extraction collaborator answers
PdfOutcomes ==
    {PdfText(""), PdfText(" \n "), PdfText(Rep("x", 10)),
     PdfText("  " \o Rep("x", MinTextLength - 1) \o "  "),
     PdfText(Rep("x", MinTextLength)),
     PdfError("Invalid PDF structure"), PdfError("file is encrypted"),
     PdfError("unexpected end of file")}

\* what the AI collaborator answers
AiOutcomes ==
    {AiText(Fence \o "json\n{\"name\": \"Ann\", \"resume_rating\": 7, "
            \o "\"work_experience\": [{\"role\": \"Dev\"}], "
            \o "\"technical_skills\": [\"SQL\"], "
            \o "\"improvement_areas\": \"" \o Rep("y", PreviewLength) \o "\"}\n" \o Fence),
     AiText("Here you go: {\"name\": \"Bo\", \"resume_rating\": 11, "
            \o "\"improvement_areas\": \"" \o Rep("y", PreviewLength + 1) \o "\"} Thanks!"),
     AiText("{\"work_experience\": [null]}"),
     AiText("I cannot analyze this resume."),
     AiText("{\"name\": }"),
     AiError("API key not valid. Please pass a valid API key.", ""),
     AiError("429 quota exceeded for model", ""),
     AiError("RATE_LIMIT_EXCEEDED", ""),
     AiError("request timeout after 30000ms", ""),
     AiError("socket hang up", "ECONNRESET"),
     AiError("fetch failed", "")}

\* a collaborator the request does not reach
NotCalledPdf == PdfError("not called")
NotCalledAi == AiError("not called", "")

\* analyzeWithAI for each answer of the AI collaborator
analyzeWithAIOn ==
    [ai \in AiOutcomes \cup {NotCalledAi}, keySet \in BOOLEAN |-> analyzeWithAI(ai, keySet)]

\* the analysis with processed_at, file_name and text_length added
annotateAnalysis(text, analysed, fileName, now) ==
    IF ~analysed.ok
    THEN [ran |-> <<"extract">> \o analysed.ran] @@ analysed
    ELSE [ran |-> <<"extract">> \o analysed.ran \o <<"annotate">>] @@
         Ok(Obj([processed_at |-> IntNum(now), file_name |-> Str(fileName),
                 text_length |-> IntNum(Len(text))]
                @@ analysed.value.v))

\* the AI analysis started whatever the extraction gave
analyzeExtractedAnyway(extracted, ai, keySet, fileName, now) ==
    annotateAnalysis(IF extracted.ok THEN extracted.value ELSE "",
                     analyzeWithAIOn[ai, keySet], fileName, now)

analyzeExtracted(extracted, ai, keySet, fileName, now) ==
    IF ~extracted.ok THEN [ran |-> <<"extract">>] @@ extracted
    ELSE annotateAnalysis(extracted.value, analyzeWithAIOn[ai, keySet], fileName, now)

\* analyzeResume: extract, analyze, annotate
analyzeResume(pdf, ai, keySet, fileName, now) ==
    analyzeExtracted(extractTextFromPDF(pdf), ai, keySet, fileName, now)

-----------------------------------------------------------------------------
(* HTTP responses and the error handlers *)

\* res.status(status).json({ success, message, data })
Reply(op, status, success, message, hasData, data) ==
    [op |-> op, status |-> status, success |-> success, message |-> message,
     hasError |-> FALSE, hasStack |-> FALSE, hasData |-> hasData, data |-> data]

ReplyError(op, status, message) == Reply(op, status, FALSE, message, FALSE, EmptyObj)

UpperOrDigit ==
    DigitChars \cup {"A", "B", "C", "D", "E", "F", "G", "H", "I", "J", "K", "L", "M",
                     "N", "O", "P", "Q", "R", "S", "T", "U", "V", "W", "X", "Y", "Z"}

\* err.code.match(/^[0-9A-Z]{5}$/)
IsSqlState(code) == Len(code) = 5 /\ \A i \in 1..5 : Char(code, i) \in UpperOrDigit

handlePostgreSQLError(err) ==
    CASE err.code = "23505" -> AppError("Duplicate field: value already exists.", 400)
      [] err.code = "23502" -> AppError("Missing required field: required field", 400)
      [] err.code = "23514" -> AppError("Data validation failed. Please check your input.", 400)
      [] err.code = "42P01" -> AppError("Database table not found. Please contact support.", 500)
      [] err.code = "42703" -> AppError("Invalid data structure. Please contact support.", 500)
      [] err.code = "28P01" -> AppError("Database authentication failed.", 500)
      [] err.code = "3D000" -> AppError("Database not found.", 500)
      [] err.code = "53300" -> AppError("Service temporarily unavailable. Please try again later.", 503)
      [] OTHER -> AppError("Database operation failed.", 500)

\* handleMulterError of the global handler
handleLimitError(err) ==
    CASE err.code = "LIMIT_FILE_SIZE" -> AppError("File too large. Maximum size is 5MB.", 400)
      [] err.code = "LIMIT_FILE_COUNT" -> AppError("Too many files. Please upload one file at a time.", 400)
      [] err.code = "LIMIT_UNEXPECTED_FILE" -> AppError("Unexpected field name. Please use \"resume\" as field name.", 400)
      [] OTHER -> AppError("File upload failed.", 400)

handlePDFError(err) ==
    IF Includes(err.message, "PDF parsing failed") \/ Includes(err.message, "Invalid PDF")
    THEN AppError("Unable to process PDF file. Please ensure it's a valid, non-encrypted PDF.", 400)
    ELSE IF Includes(err.message, "password")
    THEN AppError("PDF is password protected. Please upload an unprotected PDF.", 400)
    ELSE AppError("PDF processing failed. Please try with a different file.", 400)

handleAIServiceError(err) ==
    IF Includes(err.message, "API key")
    THEN AppError("AI service configuration error. Please contact support.", 500)
    ELSE IF Includes(err.message, "quota") \/ Includes(err.message, "limit")
    THEN AppError("AI service temporarily unavailable due to usage limits. Please try again later.", 503)
    ELSE IF Includes(err.message, "timeout")
    THEN AppError("AI analysis is taking longer than expected. Please try again.", 408)
    ELSE AppError("AI analysis service is temporarily unavailable. Please try again later.", 503)

\* { success, error: err, message, stack: err.stack, timestamp }
sendErrorDev(op, err) ==
    [ReplyError(op, err.statusCode, err.message)
        EXCEPT !.hasError = TRUE, !.hasStack = err.hasStack]

(* sendErrorProd mutated: the message of every error is sent *)
sendErrorProdRawMessage(op, err) ==
    ReplyError(op, IF err.isOperational THEN err.statusCode ELSE 500, err.message)

sendErrorProd(op, err) ==
    IF err.isOperational THEN ReplyError(op, err.statusCode, err.message)
    ELSE ReplyError(op, 500, "Something went wrong! Please try again later.")

\* globalErrorHandler: each test reads the error as raised, a later match
\* replaces the result of an earlier one; the copy { ...err } has the own
\* enumerable properties and the message, not the stack
globalErrorHandler(op, raised, env) ==
    LET err == [raised EXCEPT !.statusCode = IF @ = 0 THEN 500 ELSE @,
                              !.hasStack = FALSE]
        e1 == IF err.code # "" /\ IsSqlState(err.code)
              THEN handlePostgreSQLError(err) ELSE err
        e2 == IF err.code # "" /\ StartsWithAt(err.code, 1, "LIMIT_")
              THEN handleLimitError(err) ELSE e1
        e3 == IF err.message # "" /\ (Includes(err.message, "PDF") \/ Includes(err.message, "pdf"))
              THEN handlePDFError(err) ELSE e2
        e4 == IF err.message # ""
                 /\ (\/ Includes(err.message, "AI analysis")
                     \/ Includes(err.message, "Gemini")
                     \/ Includes(err.message, "API key"))
              THEN handleAIServiceError(err) ELSE e3
    IN  IF env = "development" THEN sendErrorDev(op, e4) ELSE sendErrorProd(op, e4)

(* the router's handler mutated: no case for LIMIT_FILE_SIZE *)
routerHandleErrorNoSizeCase(op, err, env) ==
    IF err.name = "MulterError"
    THEN ReplyError(op, 400,
            CASE err.code = "LIMIT_FILE_COUNT" -> "Too many files. Please upload one file at a time."
              [] err.code = "LIMIT_UNEXPECTED_FILE" ->
                    "Unexpected field name. Please use \"resume\" as the field name."
              [] OTHER -> "File upload error occurred.")
    ELSE globalErrorHandler(op, err, env)

\* the router's handleMulterError, then the application's error handler
routerHandleError(op, err, env) ==
    IF err.name = "MulterError"
    THEN ReplyError(op, 400,
            CASE err.code = "LIMIT_FILE_SIZE" -> "File too large. Maximum size is 5MB."
              [] err.code = "LIMIT_FILE_COUNT" -> "Too many files. Please upload one file at a time."
              [] err.code = "LIMIT_UNEXPECTED_FILE" ->
                    "Unexpected field name. Please use \"resume\" as the field name."
              [] OTHER -> "File upload error occurred.")
    ELSE globalErrorHandler(op, err, env)

-----------------------------------------------------------------------------
(* The upload route: multer, validateFileUpload, uploadResume *)

MaxFileSize == 5 * 1024 * 1024

NoFile == [present |-> FALSE, field |-> "", mimetype |-> "", size |-> 0,
           originalname |-> ""]
FilePart(field, mimetype, size, originalname) ==
    [present |-> TRUE, field |-> field, mimetype |-> mimetype, size |-> size,
     originalname |-> originalname]

fileFilter(file) ==
    IF file.mimetype = "application/pdf" THEN NoError
    ELSE AppError("Only PDF files are allowed!", 400)

\* upload.single('resume') with fileFilter and limits.fileSize: the error
\* handed to next(), or req.file
uploadSingle(part) ==
    IF ~part.present THEN [error |-> NoError, file |-> NoFile]
    ELSE IF part.field # "resume"
    THEN [error |-> RawError("MulterError", "Unexpected field", "LIMIT_UNEXPECTED_FILE"),
          file |-> NoFile]
    ELSE IF fileFilter(part) # NoError THEN [error |-> fileFilter(part), file |-> NoFile]
    ELSE IF part.size > MaxFileSize
    THEN [error |-> RawError("MulterError", "File too large", "LIMIT_FILE_SIZE"),
          file |-> NoFile]
    ELSE [error |-> NoError, file |-> part]

validateFileUpload(file) ==
    IF ~file.present THEN AppError("No file uploaded. Please select a PDF file.", 400)
    ELSE IF file.mimetype # "application/pdf"
    THEN AppError("Invalid file type. Only PDF files are allowed.", 400)
    ELSE IF file.size > MaxFileSize THEN AppError("File too large. Maximum size is 5MB.", 400)
    ELSE IF file.size = 0
    THEN AppError("Empty file uploaded. Please select a valid PDF file.", 400)
    ELSE NoError

\* the error the route's middleware hands to next(), NoError if the request
\* reaches the controller
uploadMiddlewareError(part) ==
    LET m == uploadSingle(part) IN
    IF m.error # NoError THEN m.error ELSE validateFileUpload(m.file)

\* a fault of the storage collaborator while a statement runs
NoFault == [message |-> "", code |-> ""]
DbFault(message, code) == [message |-> message, code |-> code]

\* a JSONB column: the text handed in is stored as the value it denotes, and
\* the driver hands the stored value back decoded
Jsonb(text) == JSONparse(text).value

JsonColumns ==
    {"work_experience", "education", "technical_skills", "soft_skills",
     "projects", "certifications", "upskill_suggestions"}

\* the parameter of a list column: JSON.stringify(analysisResult.<column>),
\* with || [] for projects and certifications
listParam(a, column) ==
    JSONstringify(IF column \in {"projects", "certifications"}
                  THEN OrElse(a[column], Arr(<< >>)) ELSE a[column])

\* the row INSERT ... RETURNING * yields for the VALUES of uploadResume
insertRow(id, now, fileName, analysisResult) ==
    [c \in JsonColumns |-> Jsonb(listParam(analysisResult.v, c))] @@
    [id |-> id, file_name |-> Str(fileName), uploaded_at |-> now,
     name |-> analysisResult.v["name"], email |-> analysisResult.v["email"],
     phone |-> analysisResult.v["phone"],
     linkedin_url |-> analysisResult.v["linkedin_url"],
     portfolio_url |-> analysisResult.v["portfolio_url"],
     summary |-> analysisResult.v["summary"],
     resume_rating |-> analysisResult.v["resume_rating"],
     improvement_areas |-> analysisResult.v["improvement_areas"]]

\* the row with its list columns replaced by what JSON.parse returned
decodedRow(parsed, row) ==
    IF \E c \in JsonColumns : parsed[c].threw THEN Threw
    ELSE Returned([c \in JsonColumns |-> parsed[c].value] @@ row)

\* row.col = JSON.parse(row.col || '[]') for the seven list columns
decodeRow(row) ==
    decodedRow([c \in JsonColumns |-> JSONparseValue(OrElse(row[c], Str("[]")))], row)

\* the catch block of uploadResume
uploadCatch(error) ==
    IF Includes(error.message, "PDF parsing failed")
    THEN ReplyError("upload", 400,
            "Unable to process PDF file. Please ensure it's a valid, non-encrypted PDF.")
    ELSE IF Includes(error.message, "AI analysis failed")
    THEN ReplyError("upload", 500,
            "AI analysis service is temporarily unavailable. Please try again later.")
    ELSE IF error.code = "23505"
    THEN ReplyError("upload", 400, "A resume with this name already exists.")
    ELSE ReplyError("upload", 500,
            "An error occurred while processing your resume. Please try again.")

\* what a step of uploadResume leaves: the response written or the error
\* thrown, the stages run, and the table, the id sequence and the time
Responded(resp, ran, table, id, now) ==
    [threw |-> FALSE, response |-> resp, error |-> NoError, ran |-> ran,
     table |-> table, seq |-> id, time |-> now]
Thrown(error, ran, table, id, now) ==
    [threw |-> TRUE, response |-> ReplyError("upload", 0, ""), error |-> error,
     ran |-> ran, table |-> table, seq |-> id, time |-> now]

\* the saved row decoded for the response, and the 201
respondSaved(decoded, ran, table, id, now) ==
    IF decoded.threw
    THEN Thrown(RawError("SyntaxError", "Unexpected token o in JSON at position 1", ""),
                ran, table, id, now)
    ELSE Responded(Reply("upload", 201, TRUE, "Resume uploaded and analyzed successfully!",
                         TRUE, decoded.value),
                   ran \o <<"respond">>, table, id, now)

\* saveRow with a sequence that does not advance
saveRowSameSequence(row, ran, table, id, now) ==
    respondSaved(decodeRow(row), ran \o <<"insert">>, (id :> row) @@ table, id, now + 1)

\* the row is in the table from here on
saveRow(row, ran, table, id, now) ==
    respondSaved(decodeRow(row), ran \o <<"insert">>, (id :> row) @@ table, id + 1, now + 1)

\* pool.query(INSERT ...) with the analysis
saveAnalysis(analysis, fileName, fault, table, id, now) ==
    IF ~analysis.ok THEN Thrown(analysis.error, analysis.ran, table, id, now)
    ELSE IF fault # NoFault
    THEN Thrown(RawError("error", fault.message, fault.code),
                analysis.ran \o <<"insert">>, table, id, now)
    ELSE saveRow(insertRow(id, now, fileName, analysis.value), analysis.ran, table, id, now)

\* the try block of uploadResume
uploadResumeTry(file, pdf, ai, fault, keySet, table, id, now) ==
    IF ~file.present
    THEN Responded(ReplyError("upload", 400, "No file uploaded. Please select a PDF file."),
                   << >>, table, id, now)
    ELSE IF file.mimetype # "application/pdf"
    THEN Responded(ReplyError("upload", 400, "Only PDF files are allowed."),
                   << >>, table, id, now)
    ELSE IF file.size > MaxFileSize
    THEN Responded(ReplyError("upload", 400,
                              "File size too large. Maximum size allowed is 5MB."),
                   << >>, table, id, now)
    ELSE saveAnalysis(analyzeResume(pdf, ai, keySet, file.originalname, now),
                      file.originalname, fault, table, id, now)

\* the thrown error through the catch block
uploadResumeCatch(tried) ==
    IF tried.threw THEN [tried EXCEPT !.response = uploadCatch(tried.error)] ELSE tried

\* uploadResume: [response, ran, table, seq, time]
uploadResume(file, pdf, ai, fault, keySet, table, id, now) ==
    uploadResumeCatch(uploadResumeTry(file, pdf, ai, fault, keySet, table, id, now))

\* the middleware chain of the route, then the controller
uploadAfterMiddleware(refused, file, pdf, ai, fault, env, keySet, table, id, now) ==
    IF refused # NoError
    THEN Responded(routerHandleError("upload", refused, env), << >>, table, id, now)
    ELSE uploadResume(file, pdf, ai, fault, keySet, table, id, now)

\* POST /api/resumes/upload
uploadRoute(part, pdf, ai, fault, env, keySet, table, id, now) ==
    uploadAfterMiddleware(uploadMiddlewareError(part), uploadSingle(part).file, pdf, ai, fault, env, keySet,
                          table, id, now)

-----------------------------------------------------------------------------
(* The id routes and the statistics *)

\* the text of an integer parameter as PostgreSQL reads it: NaN stands for
\* error 22P02, invalid input syntax for type integer
PgInteger(text) ==
    LET t == Trim(text)
        signed == Len(t) > 0 /\ Char(t, 1) \in {"-", "+"}
        d == IF signed THEN 2 ELSE 1
        r == ReadDigits(t, d, 10, 0, FALSE)
    IN  IF d > Len(t) \/ DigitsEnd(t, d) <= Len(t) THEN NaN
        ELSE Number(IF signed /\ Char(t, 1) = "-" THEN 0 - r.n ELSE r.n)

validateResumeId(id) ==
    IF id = "" THEN AppError("Resume ID is required.", 400)
    ELSE IF ParseIntStr(id).nan \/ ParseIntStr(id).n <= 0
    THEN AppError("Invalid resume ID. ID must be a positive number.", 400)
    ELSE NoError

\* deleteResume without the rows.length === 0 test
deleteResumeNoRowTest(id, fault, table) ==
    IF id = "" \/ ParseIntStr(id).nan
    THEN [response |-> ReplyError("delete", 400, "Invalid resume ID provided."),
          table |-> table]
    ELSE IF fault # NoFault \/ PgInteger(id).nan
    THEN [response |-> ReplyError("delete", 500, "An error occurred while deleting the resume."),
          table |-> table]
    ELSE [response |-> Reply("delete", 200, TRUE, "Resume deleted successfully",
                              FALSE, EmptyObj),
          table |-> [i \in DOMAIN table \ {PgInteger(id).n} |-> table[i]]]

\* deleteResume: [response, table]
deleteResume(id, fault, table) ==
    LET same(resp) == [response |-> resp, table |-> table]
        key == PgInteger(id)
    IN
    IF id = "" \/ ParseIntStr(id).nan
    THEN same(ReplyError("delete", 400, "Invalid resume ID provided."))
    ELSE IF fault # NoFault \/ key.nan
    THEN same(ReplyError("delete", 500, "An error occurred while deleting the resume."))
    ELSE IF key.n \notin DOMAIN table
    THEN same(ReplyError("delete", 404, "Resume not found."))
    ELSE [response |->
              Reply("delete", 200, TRUE,
                    "Resume \"" \o table[key.n].file_name.v \o "\" deleted successfully",
                    TRUE, [id |-> key.n, file_name |-> table[key.n].file_name]),
          table |-> [i \in DOMAIN table \ {key.n} |-> table[i]]]

\* DELETE /api/resumes/:id
deleteRoute(id, fault, env, table) ==
    IF validateResumeId(id) # NoError
    THEN [response |-> globalErrorHandler("delete", validateResumeId(id), env),
          table |-> table]
    ELSE deleteResume(id, fault, table)

\* the row decoded for the response, and the 200
respondFound(decoded) ==
    IF decoded.threw
    THEN ReplyError("get", 500, "An error occurred while fetching the resume.")
    ELSE Reply("get", 200, TRUE, "Resume retrieved successfully", TRUE, decoded.value)

\* getResumeById
getResumeById(id, fault, table) ==
    IF id = "" \/ ParseIntStr(id).nan
    THEN ReplyError("get", 400, "Invalid resume ID provided.")
    ELSE IF fault # NoFault \/ PgInteger(id).nan
    THEN ReplyError("get", 500, "An error occurred while fetching the resume.")
    ELSE IF PgInteger(id).n \notin DOMAIN table
    THEN ReplyError("get", 404, "Resume not found.")
    ELSE respondFound(decodeRow(table[PgInteger(id).n]))

\* GET /api/resumes/:id
getRoute(id, fault, env, table) ==
    IF validateResumeId(id) # NoError
    THEN globalErrorHandler("get", validateResumeId(id), env)
    ELSE getResumeById(id, fault, table)

\* CASE WHEN LENGTH(improvement_areas) > 100 THEN SUBSTRING(improvement_areas
\* FROM 1 FOR 100) || '...' ELSE improvement_areas END
improvementSummary(text) ==
    IF text.k = "str" /\ Len(text.v) > PreviewLength
    THEN Str(SubSeq(text.v, 1, PreviewLength) \o "...")
    ELSE text

\* the columns getAllResumes selects
summaryRow(row) ==
    [id |-> row.id, file_name |-> row.file_name, uploaded_at |-> row.uploaded_at,
     name |-> row.name, email |-> row.email, resume_rating |-> row.resume_rating,
     improvement_summary |-> improvementSummary(row.improvement_areas)]

\* the oldest row first
RECURSIVE orderByUploadedAtAsc(_, _)
orderByUploadedAtAsc(table, ids) ==
    IF ids = {} THEN << >>
    ELSE LET first == CHOOSE i \in ids :
                         \A j \in ids : table[i].uploaded_at <= table[j].uploaded_at
         IN  << summaryRow(table[first]) >> \o orderByUploadedAtAsc(table, ids \ {first})

\* ORDER BY uploaded_at DESC
RECURSIVE orderByUploadedAtDesc(_, _)
orderByUploadedAtDesc(table, ids) ==
    IF ids = {} THEN << >>
    ELSE LET first == CHOOSE i \in ids :
                         \A j \in ids : table[j].uploaded_at <= table[i].uploaded_at
         IN  << summaryRow(table[first]) >> \o orderByUploadedAtDesc(table, ids \ {first})

\* res.status(200).json({ success, message, data: result.rows, count })
respondRows(rows) ==
    [count |-> Len(rows)] @@
    Reply("list", 200, TRUE, "Resumes retrieved successfully", TRUE, rows)

\* getAllResumes
getAllResumes(fault, table) ==
    IF fault # NoFault
    THEN ReplyError("list", 500, "An error occurred while fetching resumes.")
    ELSE respondRows(orderByUploadedAtDesc(table, DOMAIN table))

LowerCase == "abcdefghijklmnopqrstuvwxyz"
UpperCase == "ABCDEFGHIJKLMNOPQRSTUVWXYZ"

\* the letters of s that are in `from' replaced by the ones at the same place
\* in `to'
RECURSIVE MapCase(_, _, _, _)
MapCase(s, i, from, to) ==
    IF i > Len(s) THEN ""
    ELSE (IF IndexOf(from, Char(s, i)) >= 0
          THEN Char(to, IndexOf(from, Char(s, i)) + 1)
          ELSE Char(s, i)) \o MapCase(s, i + 1, from, to)

toLowerCase(s) == MapCase(s, 1, UpperCase, LowerCase)
toUpperCase(s) == MapCase(s, 1, LowerCase, UpperCase)

\* the handler of a route that is not built yet
notImplemented(op, message) == Reply(op, 501, FALSE, message, FALSE, EmptyObj)

\* PUT /api/resumes/:id and POST /api/resumes/:id/reanalyze
reservedIdRoute(op, id, env, message) ==
    IF validateResumeId(id) # NoError
    THEN globalErrorHandler(op, validateResumeId(id), env)
    ELSE notImplemented(op, message)

\* GET /api/resumes/export/:format
exportRoute(format) ==
    IF toLowerCase(format) \notin {"csv", "json", "xlsx"}
    THEN ReplyError("export", 400,
                    "Invalid export format. Supported formats: csv, json, xlsx")
    ELSE notImplemented("export",
                        "Export to " \o toUpperCase(format) \o " feature coming soon!")

\* the five routes kept for later features
reservedRoute(op, param, env) ==
    CASE op = "update" ->
            reservedIdRoute(op, param, env, "Resume update feature coming soon!")
      [] op = "reanalyze" ->
            reservedIdRoute(op, param, env, "Resume reanalysis feature coming soon!")
      [] op = "bulk-upload" -> notImplemented(op, "Bulk upload feature coming soon!")
      [] op = "search" -> notImplemented(op, "Resume search feature coming soon!")
      [] op = "export" -> exportRoute(param)

RECURSIVE SumOf(_, _)
SumOf(f, S) ==
    IF S = {} THEN 0
    ELSE LET x == CHOOSE y \in S : TRUE IN f[x] + SumOf(f, S \ {x})

\* parseInt of an aggregate column: NULL over no rows reads as "null"
AggregateInt(isNull, n) == IF isNull THEN ParseIntStr("null") ELSE ParseIntStr(NatToString(n))

\* parseFloat(parseFloat(avg).toFixed(2)) in hundredths: NaN over no rows
AverageHundredths(sum, count) ==
    IF count = 0 THEN NaN ELSE Number((200 * sum + count) \div (2 * count))

\* getResumeStats: the numbers of the body; res.json writes NaN as null
getResumeStats(fault, table) ==
    LET ids == DOMAIN table
        rating == [i \in ids |-> table[i].resume_rating.v \div 10]
        count == Cardinality(ids)
        none == count = 0
    IN
    IF fault # NoFault
    THEN ReplyError("stats", 500, "An error occurred while fetching resume statistics.")
    ELSE Reply("stats", 200, TRUE, "Resume statistics retrieved successfully", TRUE,
           [total_resumes |-> AggregateInt(FALSE, count),
            avg_rating |-> AverageHundredths(SumOf(rating, ids), count),
            max_rating |-> AggregateInt(none, IF none THEN 0 ELSE Max({rating[i] : i \in ids})),
            min_rating |-> AggregateInt(none, IF none THEN 0 ELSE Min({rating[i] : i \in ids})),
            high_rated_count |-> AggregateInt(FALSE, Cardinality({i \in ids : rating[i] >= 8})),
            medium_rated_count |->
                AggregateInt(FALSE, Cardinality({i \in ids : rating[i] \in 5..7})),
            low_rated_count |-> AggregateInt(FALSE, Cardinality({i \in ids : rating[i] < 5}))])

-----------------------------------------------------------------------------
(* Values of the variables a specification does not use *)

\* ResumeUploader as it is mounted: nothing selected, nothing sent
NoUploads ==
    [file |-> Null, error |-> Null, uploading |-> FALSE, success |-> Null,
     pending |-> Null, onUpload |-> FALSE, sent |-> << >>]

\* the default of the initialPageSize prop
initialPageSize == 10

\* PastResumes as it is mounted with no rows
NoTable ==
    [data |-> << >>, query |-> "", ratingFilter |-> "all", sortKey |-> "uploadedAt",
     sortDir |-> "desc", page |-> 1, pageSize |-> initialPageSize, rows |-> << >>,
     event |-> "mount"]

\* the delete dialog as it is mounted
NoConfirm == [open |-> FALSE, row |-> Null, working |-> FALSE, error |-> Undefined]

\* no call of onDelete yet: whether the prop is given, the calls that have
\* not settled, the clicks on Delete, the calls made, and the handler that
\* ran last
NoDeleting ==
    [onDelete |-> FALSE, pending |-> << >>, confirmed |-> 0, invoked |-> 0,
     event |-> [kind |-> "mount", row |-> Null, reason |-> Undefined]]

\* App as it is constructed: the useState values, no probe of the server,
\* no loadStats request and no getResumeById request started; cancelled
\* tells that the details were closed and no resume selected since
NoApp ==
    [mounted |-> FALSE, activeTab |-> "upload", selectedResumeId |-> Null,
     selectedResumeData |-> Null, showResumeModal |-> FALSE, stats |-> Null,
     serverStatus |-> "checking", loading |-> FALSE, error |-> Null,
     probes |-> << >>, statsPending |-> 0, requests |-> << >>, selections |-> 0,
     cancelled |-> FALSE, event |-> [kind |-> "construct", n |-> 0]]

\* no call of retryApiCall
NoRetry ==
    [pc |-> "idle", maxRetries |-> 0, delay |-> [n |-> 0, d |-> 1], i |-> 0,
     lastError |-> "undefined", invocations |-> 0, inflight |-> 0, errors |-> << >>,
     result |-> "undefined"]

\* the pool with every client idle and no call made
NoPool ==
    [checkedOut |-> 0,
     last |-> [op |-> "none", acquired |-> 0, released |-> 0, outcome |-> "none"]]

OthersIdle ==
    /\ confirm = NoConfirm
    /\ deleting = NoDeleting
    /\ app = NoApp
    /\ retry = NoRetry
    /\ pool = NoPool

ClientIdle ==
    /\ uploader = NoUploads
    /\ pastResumes = NoTable

NoSanOut == [done |-> FALSE, threw |-> FALSE, value |-> EmptyObj]
NoRows == [i \in {} |-> EmptyObj]
NoResponse == [op |-> "none", status |-> 0, success |-> FALSE, message |-> "",
               hasError |-> FALSE, hasStack |-> FALSE, hasData |-> FALSE,
               data |-> EmptyObj]

\* a request: the route, what the client sent and what the collaborators
\* answered while it was served
UploadRequest(part, pdf, ai, fault) ==
    [op |-> "upload", part |-> part, pdf |-> pdf, ai |-> ai, fault |-> fault, id |-> ""]
IdRequest(op, id, fault) ==
    [op |-> op, part |-> NoFile, pdf |-> NotCalledPdf, ai |-> NotCalledAi,
     fault |-> fault, id |-> id]
NoRequest == IdRequest("none", "", NoFault)

ServerIdle ==
    /\ resumes = NoRows
    /\ nextId = 1
    /\ clock = 0
    /\ nodeEnv = "production"
    /\ apiKeySet = TRUE
    /\ request = NoRequest
    /\ stages = << >>
    /\ response = NoResponse

-----------------------------------------------------------------------------
(* validateRating applied to one value *)

RatingAlphabet == {"0", "1", "7", "a", "b", "c", "x", "-", "+", ".", " "}

RECURSIVE StringsOfLen(_, _)
StringsOfLen(alphabet, n) ==
    IF n = 0 THEN {""}
    ELSE {s \o c : s \in StringsOfLen(alphabet, n - 1), c \in alphabet}

RatingStrings == UNION {StringsOfLen(RatingAlphabet, n) : n \in 0..MaxStrLen}

RatingInputs ==
    {Num(t) : t \in (0 - 20)..MaxRatingTenths}
    \cup {Str(s) : s \in RatingStrings}
    \cup {Null, Undefined, Bool(TRUE), Bool(FALSE), EmptyObj,
          Arr(<< >>), Arr(<<IntNum(7)>>), Arr(<<Str("7"), Str("8")>>),
          Arr(<<Null, IntNum(3)>>)}

InitRating ==
    /\ ratingIn \in RatingInputs
    /\ ratingOut = 0
    /\ sanIn = EmptyObj
    /\ sanOut = NoSanOut
    /\ ServerIdle
    /\ OthersIdle
    /\ ClientIdle

ApplyValidateRating ==
    /\ ratingOut = 0
    /\ ratingOut' = validateRating(ratingIn)
    /\ UNCHANGED << ratingIn, sanIn, sanOut, serverVars, clientVars, otherVars >>

NextRating == ApplyValidateRating

SpecRating == InitRating /\ [][NextRating]_vars

Clamp(n) == IF n < 1 THEN 1 ELSE IF n > 10 THEN 10 ELSE n

\* t/10 with the fractional part dropped
TruncTenths(t) == IF t >= 0 THEN t \div 10 ELSE 0 - ((0 - t) \div 10)

HasDigit(s) == \E i \in 1..Len(s) : Char(s, i) \in DigitChars

RatingTails == {"", ".", " ", "a", "x", ".7", "-", "ab"}

\* C4: validateRating maps 0 to 1, 11 to 10, "abc" to 1, null to 1 and 7.9
\* to 7; a number is truncated towards zero and clamped into 1..10, a string
\* that starts with the decimal text of n (followed by a tail that is not a
\* digit, nor the x of a 0x prefix) gives n clamped into 1..10, and a value
\* with nothing to parse gives 1.
C4_RatingBoundary ==
    ratingOut # 0 =>
        /\ ratingOut \in 1..10
        /\ ratingIn = IntNum(0) => ratingOut = 1
        /\ ratingIn = IntNum(11) => ratingOut = 10
        /\ ratingIn = Str("abc") => ratingOut = 1
        /\ ratingIn = Null => ratingOut = 1
        /\ ratingIn = Num(79) => ratingOut = 7
        /\ ratingIn.k = "num" => ratingOut = Clamp(TruncTenths(ratingIn.v))
        /\ \A n \in 0..111 : \A tail \in RatingTails :
              ratingIn = Str(NatToString(n) \o tail) => ratingOut = Clamp(n)
        /\ ratingIn.k \in {"null", "undefined", "bool", "obj"} => ratingOut = 1
        /\ (ratingIn.k = "str" /\ ~HasDigit(ratingIn.v)) => ratingOut = 1

C4_Witness == ratingIn = Num(79) /\ ratingOut = 7

-----------------------------------------------------------------------------
(* validateAndSanitizeAnalysis applied to one decoded object *)

MaxOver == 3          \* how far past a length cap the long texts reach

AnalysisFields ==
    {"name", "email", "phone", "linkedin_url", "portfolio_url", "summary",
     "work_experience", "education", "technical_skills", "soft_skills",
     "projects", "certifications", "resume_rating", "improvement_areas",
     "upskill_suggestions"}

ListFields ==
    {"work_experience", "education", "projects", "certifications",
     "technical_skills", "soft_skills", "upskill_suggestions"}

WorkItem ==
    Obj([role |-> Str("Dev"), company |-> Str("Acme"), duration |-> Str("2020"),
         description |-> Arr(<<Str("built"), Str("ran")>>)])

EducationItem ==
    Obj([degree |-> Str("BSc"), institution |-> Str("MIT"),
         graduation_year |-> Str("2019")])

ProjectItem ==
    Obj([name |-> Str("Site"), description |-> Str("web"),
         technologies |-> Arr(<<Str("js")>>)])

CertificationItem ==
    Obj([name |-> Str("AWS"), issuer |-> Str("Amazon"), year |-> Str("2021")])

\* a payload that follows the schema of the prompt
ConformingAnalysis ==
    [name |-> Str("Al"), email |-> Str("a@b.c"), phone |-> Str("555"),
     linkedin_url |-> Str("in/al"), portfolio_url |-> Str("al.dev"),
     summary |-> Str("Engineer"),
     work_experience |-> Arr(<<WorkItem>>),
     education |-> Arr(<<EducationItem>>),
     technical_skills |-> Arr(<<Str("js"), Str("sql")>>),
     soft_skills |-> Arr(<<Str("talk")>>),
     projects |-> Arr(<<ProjectItem>>),
     certifications |-> Arr(<<CertificationItem>>),
     resume_rating |-> IntNum(7),
     improvement_areas |-> Str("Quantify"),
     upskill_suggestions |-> Arr(<<Str("go")>>)]

\* values of the wrong shape, and texts around the two length caps
OddValues ==
    {Null, Bool(FALSE), Bool(TRUE), IntNum(0), IntNum(11), Num(79), IntNum(5),
     Str(""), Str("abc"), Str("7"), EmptyObj,
     Obj([length |-> IntNum(ImprovementCap + 1)]),
     Arr(<< >>), Arr(<<Null>>), Arr(<<Str("s")>>), Arr(<<IntNum(3), Bool(TRUE)>>),
     Arr(<<EmptyObj>>), Arr(<<Arr(<< >>)>>), Arr(<<WorkItem, Null>>),
     Arr(<<Obj([description |-> Str("solo"), name |-> Null,
                technologies |-> Str("js")])>>),
     Arr(<<EducationItem, ProjectItem>>)}
    \cup {Str(Rep("s", n)) : n \in (SummaryCap - 1)..(SummaryCap + MaxOver)}
    \cup {Str(Rep("i", n)) : n \in (ImprovementCap - 1)..(ImprovementCap + MaxOver)}

Only(f, x) == [g \in {f} |-> x]

SanitizerInputs ==
    \* the conforming payload with any subset of its fields missing
    {Obj([f \in present |-> ConformingAnalysis[f]]) : present \in SUBSET AnalysisFields}
    \* the conforming payload with one field of another shape
    \cup {Obj(Only(f, x) @@ ConformingAnalysis) : f \in AnalysisFields, x \in OddValues}

InitSanitizer ==
    /\ sanIn \in SanitizerInputs
    /\ sanOut = NoSanOut
    /\ ratingIn = Null
    /\ ratingOut = 0
    /\ ServerIdle
    /\ OthersIdle
    /\ ClientIdle

ApplySanitizer ==
    /\ ~sanOut.done
    /\ sanOut' = [done |-> TRUE] @@ validateAndSanitizeAnalysis(sanIn)
    /\ UNCHANGED << sanIn, ratingIn, ratingOut, serverVars, clientVars, otherVars >>

NextSanitizer == ApplySanitizer

SpecSanitizer == InitSanitizer /\ [][NextSanitizer]_vars

\* every field the input has holds the value of the conforming payload
Conforming(in) == \A f \in DOMAIN in.v : in.v[f] = ConformingAnalysis[f]

IsRating(x) == x.k = "num" /\ x.v % 10 = 0 /\ (x.v \div 10) \in 1..10

\* C2: for the schema-conforming payload with any subset of its fields missing
\* the sanitizer returns, and whenever it returns (for any input) the output
\* has every Analysis field, each of the seven list fields is an array and
\* never null, and resume_rating is an integer in 1..10.
C2_SchemaComplete ==
    sanOut.done =>
        /\ Conforming(sanIn) => ~sanOut.threw
        /\ ~sanOut.threw =>
              /\ sanOut.value.k = "obj"
              /\ DOMAIN sanOut.value.v = AnalysisFields
              /\ \A f \in ListFields : sanOut.value.v[f].k = "arr"
              /\ IsRating(sanOut.value.v["resume_rating"])

C2_Witness ==
    /\ sanOut.done
    /\ ~sanOut.threw
    /\ DOMAIN sanIn.v = {"name", "resume_rating"}
    /\ sanOut.value.v["projects"] = Arr(<< >>)

\* C3: the sanitizer returns a payload for every decoded object and never
\* raises an error.
C3_SanitizerTotal == sanOut.done => ~sanOut.threw

TextLen(x) == IF x.k = "str" THEN Len(x.v) ELSE 0

\* the text of a capped field: its first keep characters and an ellipsis
Capped(in, out, cap, keep) ==
    /\ out.k = "str"
    /\ Len(out.v) = cap
    /\ SubSeq(out.v, 1, keep) = SubSeq(in.v, 1, keep)
    /\ SubSeq(out.v, keep + 1, cap) = "..."

-----------------------------------------------------------------------------
(* The server: requests handled one after another against the table *)

\* the multipart bodies a client sends
UploadParts ==
    {NoFile,
     FilePart("resume", "application/pdf", 1024, "cv.pdf"),
     FilePart("resume", "application/pdf", MaxFileSize, "cv.pdf"),
     FilePart("resume", "application/pdf", MaxFileSize + 1, "cv.pdf"),
     FilePart("resume", "application/pdf", 6 * 1024 * 1024, "cv.pdf"),
     FilePart("resume", "application/pdf", 0, "cv.pdf"),
     FilePart("resume", "image/png", 1024, "cv.png"),
     FilePart("cv", "application/pdf", 1024, "cv.pdf")}

\* what the database answers when it fails a statement
DbFaults ==
    {DbFault("sorry, too many clients already", "53300"),
     DbFault("connect ECONNREFUSED 127.0.0.1:5432", "ECONNREFUSED")}

\* the :id parameters a client sends
IdParams ==
    {NatToString(n) : n \in 0..(MaxRows + 1)} \cup {"abc", "1abc", "1.5", "-1"}

Init ==
    /\ ratingIn = Null
    /\ ratingOut = 0
    /\ sanIn = EmptyObj
    /\ sanOut = NoSanOut
    /\ resumes = NoRows
    /\ nextId = 1
    /\ clock = 1
    /\ nodeEnv \in {"development", "production"}
    /\ apiKeySet \in BOOLEAN
    /\ request = NoRequest
    /\ stages = << >>
    /\ response = NoResponse
    /\ ClientIdle
    /\ OthersIdle

\* POST /api/resumes/upload; a collaborator's answer is drawn only when the
\* request reaches it
Upload ==
    /\ nextId <= MaxRows
    /\ \E part \in UploadParts :
       \E pdf \in (IF uploadMiddlewareError(part) = NoError
                   THEN PdfOutcomes ELSE {NotCalledPdf}) :
       \E ai \in (IF pdf # NotCalledPdf /\ extractTextFromPDF(pdf).ok /\ apiKeySet
                  THEN AiOutcomes ELSE {NotCalledAi}) :
       \E fault \in (IF ai # NotCalledAi /\ analyzeWithAIOn[ai, apiKeySet].ok
                     THEN DbFaults \cup {NoFault} ELSE {NoFault}) :
       \E r \in {uploadRoute(part, pdf, ai, fault, nodeEnv, apiKeySet,
                             resumes, nextId, clock)} :
          /\ request' = UploadRequest(part, pdf, ai, fault)
          /\ response' = r.response
          /\ stages' = r.ran
          /\ resumes' = r.table
          /\ nextId' = r.seq
          /\ clock' = r.time
    /\ UNCHANGED << pureVars, otherVars, clientVars, nodeEnv, apiKeySet >>

\* DELETE /api/resumes/:id
Delete ==
    /\ \E id \in IdParams :
       \E fault \in (IF validateResumeId(id) = NoError
                     THEN DbFaults \cup {NoFault} ELSE {NoFault}) :
       \E r \in {deleteRoute(id, fault, nodeEnv, resumes)} :
          /\ request' = IdRequest("delete", id, fault)
          /\ response' = r.response
          /\ resumes' = r.table
    /\ UNCHANGED << pureVars, otherVars, clientVars, nextId, clock, nodeEnv, apiKeySet, stages >>

\* GET /api/resumes/:id
GetById ==
    /\ \E id \in IdParams :
       \E fault \in (IF validateResumeId(id) = NoError
                     THEN DbFaults \cup {NoFault} ELSE {NoFault}) :
          /\ request' = IdRequest("get", id, fault)
          /\ response' = getRoute(id, fault, nodeEnv, resumes)
    /\ UNCHANGED << pureVars, otherVars, clientVars, resumes, nextId, clock, nodeEnv, apiKeySet, stages >>

\* GET /api/resumes
List ==
    /\ \E fault \in DbFaults \cup {NoFault} :
          /\ request' = IdRequest("list", "", fault)
          /\ response' = getAllResumes(fault, resumes)
    /\ UNCHANGED << pureVars, otherVars, clientVars, resumes, nextId, clock, nodeEnv, apiKeySet, stages >>

\* a request to one of the routes kept for later features, with its path
\* parameter
ReservedRequests ==
    ({"update", "reanalyze"} \X {"1", "0"})
    \cup {<<"bulk-upload", "">>, <<"search", "sql">>}
    \cup ({"export"} \X {"csv", "Json", "pdf"})

\* PUT /:id, POST /bulk-upload, GET /search/:query, POST /:id/reanalyze,
\* GET /export/:format
Reserved ==
    /\ \E r \in ReservedRequests :
          /\ request' = IdRequest(r[1], r[2], NoFault)
          /\ response' = reservedRoute(r[1], r[2], nodeEnv)
    /\ UNCHANGED << pureVars, otherVars, clientVars, resumes, nextId, clock, nodeEnv, apiKeySet, stages >>

\* the errors the middleware in front of the routes hands to next(): the
\* origin test of cors, the JSON body parser (statusCode 400, a message that
\* quotes the body) and the multipart parser
MiddlewareFailures ==
    {RawError("Error", "Not allowed by CORS", ""),
     [RawError("SyntaxError", "Unexpected token } in JSON at position 3", "")
         EXCEPT !.statusCode = 400],
     [RawError("SyntaxError", "Unexpected end of JSON input", "")
         EXCEPT !.statusCode = 400],
     RawError("Error", "Unexpected end of form", "")}

\* a request refused by the middleware in front of the routes
FailedRequest(raised) == [raised |-> raised] @@ IdRequest("refused", "", NoFault)

\* a request that cors, express.json or the multipart parser refuses
Refuse ==
    /\ \E raised \in MiddlewareFailures :
          /\ request' = FailedRequest(raised)
          /\ response' = globalErrorHandler("refused", raised, nodeEnv)
    /\ UNCHANGED << pureVars, otherVars, clientVars, resumes, nextId, clock, nodeEnv, apiKeySet, stages >>

\* GET /api/resumes/stats
GetStats ==
    /\ \E fault \in DbFaults \cup {NoFault} :
          /\ request' = IdRequest("stats", "", fault)
          /\ response' = getResumeStats(fault, resumes)
    /\ UNCHANGED << pureVars, otherVars, clientVars, resumes, nextId, clock, nodeEnv, apiKeySet, stages >>

\* the GET routes of the resume router in the order they are registered,
\* each path by its segments
GetRoutes ==
    << [path |-> << >>, handler |-> "list"],
       [path |-> << "stats" >>, handler |-> "stats"],
       [path |-> << ":id" >>, handler |-> "get"],
       [path |-> << "search", ":query" >>, handler |-> "search"],
       [path |-> << "export", ":format" >>, handler |-> "export"],
       [path |-> << "health" >>, handler |-> "health" ] >>

\* a route path matches a request path: a parameter matches any segment
matchRoute(route, path) ==
    /\ Len(route) = Len(path)
    /\ \A i \in 1..Len(route) :
          IF Char(route[i], 1) = ":" THEN path[i] # "" ELSE route[i] = path[i]

\* the handler of the first route that matches; a route whose middleware
\* refuses the request hands an error to next(), which passes over every
\* later route
resolveGet(path) ==
    LET hits == {i \in 1..Len(GetRoutes) : matchRoute(GetRoutes[i].path, path)}
    IN  IF hits = {} THEN "none" ELSE GetRoutes[Min(hits)].handler

\* router.get('/health')
moduleHealth == Reply("health", 200, TRUE, "Resume routes are healthy!", FALSE, EmptyObj)

\* GET /api/resumes/<segment> through the router
routerGet(handler, segment, env, table) ==
    CASE handler = "stats" -> getResumeStats(NoFault, table)
      [] handler = "get" -> getRoute(segment, NoFault, env, table)
      [] handler = "health" -> moduleHealth
      [] OTHER -> ReplyError("none", 404, "API endpoint not found")

\* the static paths of one segment the router declares
StaticPaths == {<< "stats" >>, << "health" >>}

\* GET of a static path
GetStatic ==
    /\ \E path \in StaticPaths :
          /\ request' = IdRequest("static", path[1], NoFault)
          /\ response' = routerGet(resolveGet(path), path[1], nodeEnv, resumes)
    /\ UNCHANGED << pureVars, otherVars, clientVars, resumes, nextId, clock, nodeEnv, apiKeySet, stages >>

Next == Upload \/ Delete \/ GetById \/ List \/ GetStats \/ Reserved \/ Refuse \/ GetStatic

Spec == Init /\ [][Next]_vars

-----------------------------------------------------------------------------
(* Properties of the server *)

\* the last request was an upload the route handed to the controller
Accepted == request.op = "upload" /\ uploadMiddlewareError(request.part) = NoError

Inserted == \E i \in 1..Len(stages) : stages[i] = "insert"

\* C1: an upload changes the set of stored records if and only if it is
\* answered with 201; a 201 adds exactly one record and keeps the others, and
\* an upload answered with any other status leaves the table as it was.
C1_UploadAtomicity ==
    [][request'.op = "upload" =>
          /\ (resumes' # resumes) <=> (response'.status = 201)
          /\ response'.status = 201 =>
                /\ Cardinality(DOMAIN resumes') = Cardinality(DOMAIN resumes) + 1
                /\ \A i \in DOMAIN resumes : i \in DOMAIN resumes' /\ resumes'[i] = resumes[i]
          /\ response'.status # 201 => resumes' = resumes]_vars

\* the extraction yields a text of fewer than 50 characters, not blank
ShortText(pdf) ==
    pdf.ok /\ Len(pdf.text) < 50 /\ Len(Trim(pdf.text)) >= 1

\* C6: an accepted upload whose extracted text has fewer than 50 characters
\* (and is not blank) is answered with 400 and the message of the extraction
\* error, and no INSERT is issued.
C6_ShortTextRejected ==
    (Accepted /\ ShortText(request.pdf)) =>
        /\ response.status = 400
        /\ response.message = extractTextFromPDF(request.pdf).error.message
        /\ ~Inserted

\* the AI collaborator was called and its call timed out
AiTimedOut ==
    /\ Accepted
    /\ request.ai # NotCalledAi
    /\ ~request.ai.ok
    /\ (Includes(request.ai.message, "timeout") \/ request.ai.code = "ECONNRESET")

\* C7: an upload whose AI call times out is answered with 408, and no INSERT
\* is issued.
C7_AiTimeout == AiTimedOut => (response.status = 408 /\ ~Inserted)

\* the upload failed on the AI service with the given word in its error
AiFailedWith(word) ==
    /\ Accepted
    /\ request.ai # NotCalledAi
    /\ ~request.ai.ok
    /\ Includes(request.ai.message, word)

\* C8: an upload that fails on AI quota or on an AI outage, or on a storage
\* outage or an exhausted pool, is answered with 503; one the AI service
\* rate-limited is answered with 429.
C8_UploadTaxonomy ==
    /\ (AiFailedWith("quota") \/ AiFailedWith("fetch failed")) => response.status = 503
    /\ AiFailedWith("RATE_LIMIT") => response.status = 429
    /\ (Accepted /\ request.fault # NoFault) => response.status = 503

\* the parts C9 names: no file under the field "resume", another MIME type,
\* or more than 5 MiB
Oversize(part) == part.present /\ part.size > 5 * 1024 * 1024

Refused(part) ==
    \/ ~part.present
    \/ part.field # "resume"
    \/ part.mimetype # "application/pdf"
    \/ Oversize(part)

\* C9: an upload without a file under "resume", with a MIME type other than
\* application/pdf or with more than 5 MiB is answered with 400 and
\* success = false, the message for the oversize file names the 5MB limit, no
\* stage of the orchestrator runs and the table stays as it was.
C9_RequestValidation ==
    [][(request'.op = "upload" /\ Refused(request'.part)) =>
          /\ response'.status = 400
          /\ ~response'.success
          /\ Oversize(request'.part) => Includes(response'.message, "5MB")
          /\ stages' = << >>
          /\ resumes' = resumes]_vars

C9_Witness ==
    /\ request.op = "upload"
    /\ request.part = FilePart("resume", "application/pdf", 6 * 1024 * 1024, "cv.pdf")
    /\ response.status = 400
    /\ response.message = "File too large. Maximum size is 5MB."
    /\ DOMAIN resumes # {}

\* C10: the statistics of a database that answers are sent with 200, and over
\* an empty table total_resumes is 0 and avg_rating is the number 0.
C10_StatsEmptyTable ==
    (request.op = "stats" /\ request.fault = NoFault) =>
        /\ response.status = 200
        /\ DOMAIN resumes = {} =>
              /\ response.data.total_resumes = Number(0)
              /\ response.data.avg_rating = Number(0)

\* the text is the decimal form of a positive integer
PositiveIntegerText(id) ==
    /\ Len(id) >= 1
    /\ \A i \in 1..Len(id) : Char(id, i) \in DigitChars
    /\ \E i \in 1..Len(id) : Char(id, i) # "0"

\* C11: while the database answers, GET /api/resumes/:id responds 400 when
\* the parameter is not the text of a positive integer, 404 with the message
\* "Resume not found." when it is one and no record has that id, and 200 with
\* the record otherwise.
C11_GetByIdTable ==
    (request.op = "get" /\ request.fault = NoFault) =>
        /\ ~PositiveIntegerText(request.id) => response.status = 400
        /\ (PositiveIntegerText(request.id) /\ PgInteger(request.id).n \notin DOMAIN resumes) =>
              /\ response.status = 404
              /\ ~response.success
              /\ response.message = "Resume not found."
        /\ (PositiveIntegerText(request.id) /\ PgInteger(request.id).n \in DOMAIN resumes) =>
              /\ response.status = 200
              /\ response.hasData

\* the request named a positive integer with no record in the table, and
\* the database answered
AbsentId(req, table) ==
    /\ req.fault = NoFault
    /\ PositiveIntegerText(req.id)
    /\ PgInteger(req.id).n \notin DOMAIN table

PresentId(req, table) ==
    /\ req.fault = NoFault
    /\ PositiveIntegerText(req.id)
    /\ PgInteger(req.id).n \in DOMAIN table

\* C13: an upload that stored its record is answered 201, and a get of a
\* stored record is answered 200 with the seven list fields equal to the
\* stored ones; neither fails while decoding the list columns.
C13_ListFieldsRoundTrip ==
    /\ (request.op = "upload" /\ Inserted) => response.status = 201
    /\ (request.op = "get" /\ PresentId(request, resumes)) =>
          /\ response.status = 200
          /\ \A c \in JsonColumns :
                response.data[c] = resumes[PgInteger(request.id).n][c]

\* the list was asked for and the database answered
Listed == request.op = "list" /\ request.fault = NoFault

Characters(text) == IF text.k = "str" THEN Len(text.v) ELSE 0

\* C18: in every row of the list improvement_summary has at most 100
\* characters, and it equals the stored improvement_areas when that has at
\* most 100 characters.
C18_PreviewLength ==
    Listed =>
        \A i \in 1..Len(response.data) :
           /\ Characters(response.data[i].improvement_summary) <= 100
           /\ Characters(resumes[response.data[i].id].improvement_areas) <= 100 =>
                 response.data[i].improvement_summary =
                    resumes[response.data[i].id].improvement_areas

\* C15: every stored record carries the id it is stored under, every id in
\* the table was taken from the sequence, and a record that enters the table
\* gets an id that is greater than every id assigned before it, deleted ones
\* included, so no id is used twice.
C15_IdsUniqueIncreasing ==
    [][/\ \A i \in DOMAIN resumes' : resumes'[i].id = i /\ i < nextId'
       /\ nextId' >= nextId
       /\ \A i \in DOMAIN resumes' \ DOMAIN resumes :
             /\ i >= nextId
             /\ \A j \in DOMAIN resumes : j < i]_vars

\* record 1 was deleted and the upload after that stored record 2
C15_Witness ==
    /\ request.op = "upload"
    /\ DOMAIN resumes = {2}
    /\ nextId = 3

\* C17: a request to one of the five reserved routes is answered 501 with
\* success = false whatever its path parameter is.
C17_ReservedNotImplemented ==
    request.op \in {"update", "bulk-upload", "search", "reanalyze", "export"} =>
        /\ response.status = 501
        /\ ~response.success

\* the words the error handler knows an error by
Recognised(err) ==
    \/ err.isOperational
    \/ err.code # ""
    \/ err.name \in {"CastError", "ValidationError", "JsonWebTokenError",
                     "TokenExpiredError", "MulterError"}
    \/ \E word \in {"PDF", "pdf", "AI analysis", "Gemini", "API key"} :
          Includes(err.message, word)

\* C16: in production a failure response carries no stack and no error
\* object, the answer to a request that met a database fault quotes neither
\* the message nor the code of the fault, and every failure the error handler
\* does not recognise is answered with the same status 500, success = false
\* and generic message, whatever the message of the raised error is.
C16_ProductionLeaksNothing ==
    (nodeEnv = "production" /\ request.op # "none" /\ ~response.success) =>
        /\ ~response.hasStack
        /\ ~response.hasError
        /\ request.fault # NoFault =>
              /\ ~Includes(response.message, request.fault.message)
              /\ ~Includes(response.message, request.fault.code)
        /\ (request.op = "refused" /\ ~Recognised(request.raised)) =>
              response = ReplyError("refused", 500,
                                    "Something went wrong! Please try again later.")

\* in production the request of an origin that is not allowed is answered
\* with the generic 500
C16_Witness ==
    /\ nodeEnv = "production"
    /\ request.op = "refused"
    /\ request.raised.message = "Not allowed by CORS"
    /\ response.status = 500
    /\ response.message = "Something went wrong! Please try again later."

-----------------------------------------------------------------------------
(* The ResumeUploader component *)

\* the default of the accept prop
accept ==
    << ".pdf", ".doc", ".docx", "application/pdf", "application/msword",
       "application/vnd.openxmlformats-officedocument.wordprocessingml.document" >>

\* the default of the maxSizeBytes prop
maxSizeBytes == 10 * 1024 * 1024

\* a File: name, MIME type, size
File(name, type, size) == [k |-> "file", name |-> name, type |-> type, size |-> size]

\* String.prototype.endsWith
EndsWith(s, suffix) ==
    Len(suffix) <= Len(s) /\ SubSeq(s, Len(s) - Len(suffix) + 1, Len(s)) = suffix

\* Math.floor(Math.log(bytes) / Math.log(1024)): the greatest i with
\* 1024^i <= bytes
RECURSIVE UnitIndex(_)
UnitIndex(bytes) == IF bytes < 1024 THEN 0 ELSE 1 + UnitIndex(bytes \div 1024)

RECURSIVE Power(_, _)
Power(b, e) == IF e = 0 THEN 1 ELSE b * Power(b, e - 1)

\* (n / d).toFixed(1), rounded half up
ToFixed1(n, d) ==
    NatToString(((20 * n + d) \div (2 * d)) \div 10) \o "." \o
    NatToString(((20 * n + d) \div (2 * d)) % 10)

\* prettyBytes
prettyBytes(bytes) ==
    IF bytes = 0 THEN "0 B"
    ELSE IF UnitIndex(bytes) = 0 THEN NatToString(bytes) \o " B"
    ELSE ToFixed1(bytes, Power(1024, UnitIndex(bytes))) \o " " \o
         << "B", "KB", "MB", "GB" >>[UnitIndex(bytes) + 1]

\* getFileBandFromScore for a number
getFileBandFromScore(score) ==
    IF score >= 75 THEN "high" ELSE IF score >= 50 THEN "medium" ELSE "low"

\* validateFile: the error text, or null
validateFile(f) ==
    IF f.size > maxSizeBytes
    THEN Str("File is too large. Max allowed is " \o prettyBytes(maxSizeBytes) \o ".")
    ELSE IF /\ ~\E i \in 1..Len(accept) :
                   /\ StartsWithAt(accept[i], 1, ".")
                   /\ EndsWith(toLowerCase(f.name), toLowerCase(accept[i]))
            /\ ~\E i \in 1..Len(accept) :
                   /\ ~StartsWithAt(accept[i], 1, ".")
                   /\ f.type = accept[i]
    THEN Str("Unsupported file type. Please upload PDF, DOC, or DOCX.")
    ELSE Null

\* onDropFiles: the errors are cleared, the first file is kept whether it is
\* valid or not
onDropFiles(u, files) ==
    IF Len(files) = 0 THEN [u EXCEPT !.error = Null, !.success = Null]
    ELSE [u EXCEPT !.file = files[1], !.error = validateFile(files[1]),
                   !.success = Null]

\* removeFile, and the click on "Upload another"
removeFile(u) == [u EXCEPT !.file = Null, !.error = Null, !.success = Null]

\* startUpload up to its await: the file of this render goes to onUpload if
\* the prop is given
startUpload(u) ==
    IF u.file = Null \/ Truthy(u.error) THEN u
    ELSE [u EXCEPT !.uploading = TRUE, !.success = Null, !.pending = u.file,
                   !.sent = IF u.onUpload THEN Append(@, u.file) ELSE @]

\* what the mock of startUpload resolves with for a score
mockResult(f, score) ==
    Obj([fileName |-> Str(f.name), fileSize |-> IntNum(f.size),
         score |-> IntNum(score), band |-> Str(getFileBandFromScore(score))])

\* startUpload after its await: the result, or the message of the rejection
uploadSettled(u, outcome) ==
    IF outcome.ok
    THEN [u EXCEPT !.success = outcome.value, !.uploading = FALSE, !.pending = Null]
    ELSE [u EXCEPT !.error = outcome.value, !.uploading = FALSE, !.pending = Null]

MaxUploads == 2

\* the files a user picks
UploaderFiles ==
    {File("cv.pdf", "application/pdf", 1024),
     File("CV.PDF", "", maxSizeBytes),
     File("cv.pdf", "application/pdf", maxSizeBytes + 1),
     File("photo.png", "image/png", 1024)}

\* what onUpload settles with: a result, a rejection with a message, one
\* without (e?.message ?? 'Upload failed. Please try again.')
UploadOutcomes(f) ==
    {[ok |-> TRUE, value |-> Obj([fileName |-> Str(f.name)])],
     [ok |-> FALSE, value |-> Str("Network Error")],
     [ok |-> FALSE, value |-> Str("Upload failed. Please try again.")]}

\* what the mock settles with: Math.random picks the score
MockOutcomes(f) == {[ok |-> TRUE, value |-> mockResult(f, score)] : score \in {50, 75, 99}}

InitUploader ==
    /\ uploader \in {[NoUploads EXCEPT !.onUpload = given] : given \in BOOLEAN}
    /\ pastResumes = NoTable
    /\ ratingIn = Null
    /\ ratingOut = 0
    /\ sanIn = EmptyObj
    /\ sanOut = NoSanOut
    /\ ServerIdle
    /\ OthersIdle

\* a file is chosen in the dialog or dropped on the zone; an empty list is a
\* dialog closed without a choice
SelectFile ==
    /\ \E files \in {<< >>} \cup {<< f >> : f \in UploaderFiles} :
          uploader' = onDropFiles(uploader, files)
    /\ UNCHANGED << pureVars, otherVars, serverVars, pastResumes >>

\* the close button of the error banner
DismissError ==
    /\ Truthy(uploader.error)
    /\ uploader' = [uploader EXCEPT !.error = Null]
    /\ UNCHANGED << pureVars, otherVars, serverVars, pastResumes >>

\* the remove button, shown with a file and enabled while nothing uploads
RemoveFile ==
    /\ uploader.file # Null
    /\ ~uploader.uploading
    /\ uploader' = removeFile(uploader)
    /\ UNCHANGED << pureVars, otherVars, serverVars, pastResumes >>

\* the upload button: shown without a success, disabled without a file, with
\* an error and while an upload runs
ClickUpload ==
    /\ ~Truthy(uploader.success)
    /\ uploader.file # Null
    /\ ~Truthy(uploader.error)
    /\ ~uploader.uploading
    /\ Len(uploader.sent) < MaxUploads
    /\ uploader' = startUpload(uploader)
    /\ UNCHANGED << pureVars, otherVars, serverVars, pastResumes >>

\* the promise startUpload awaits settles
UploadSettles ==
    /\ uploader.uploading
    /\ \E outcome \in (IF uploader.onUpload THEN UploadOutcomes(uploader.pending)
                       ELSE MockOutcomes(uploader.pending)) :
          uploader' = uploadSettled(uploader, outcome)
    /\ UNCHANGED << pureVars, otherVars, serverVars, pastResumes >>

\* the button of the success panel
UploadAnother ==
    /\ Truthy(uploader.success)
    /\ uploader' = removeFile(uploader)
    /\ UNCHANGED << pureVars, otherVars, serverVars, pastResumes >>

NextUploader ==
    SelectFile \/ DismissError \/ RemoveFile \/ ClickUpload \/ UploadSettles \/ UploadAnother

SpecUploader == InitUploader /\ [][NextUploader]_vars

\* C19: every file handed to onUpload passes validateFile.
C19_OnlyValidFilesSent ==
    \A i \in 1..Len(uploader.sent) : validateFile(uploader.sent[i]) = Null

-----------------------------------------------------------------------------
(* The PastResumes table.  sortDir is "asc", "desc" or "null" for null; rows *)
(* is what the last render computed as `sorted'; event is the handler that   *)
(* ran last.                                                                 *)

\* the characters of the rows in the order of their UTF-16 code units
CodeUnits == " -.0123456789@_abcdefghijklmnopqrstuvwxyz"

\* a < b for two lower-case strings
StringLess(a, b) ==
    LET differ == {i \in 1..Min({Len(a), Len(b)}) : Char(a, i) # Char(b, i)}
    IN  IF differ = {} THEN Len(a) < Len(b)
        ELSE IndexOf(CodeUnits, Char(a, Min(differ))) <
             IndexOf(CodeUnits, Char(b, Min(differ)))

\* new Date(iso).getTime() for a date "yyyy-mm-dd...": the days are counted
\* with months of 31 days, which keeps the order of the dates
getTime(iso) ==
    (ParseIntStr(SubSeq(iso, 1, 4)).n * 12 + ParseIntStr(SubSeq(iso, 6, 7)).n) * 31
    + ParseIntStr(SubSeq(iso, 9, 10)).n

\* (v ?? '').toString().toLowerCase()
lowerText(v) == IF v.k = "str" THEN toLowerCase(v.v) ELSE ""

\* the value a row is compared by
sortValue(row, key) ==
    CASE key = "uploadedAt" -> getTime(row.uploadedAt)
      [] key = "rating" ->
            (CASE row.rating = Str("high") -> 3
               [] row.rating = Str("medium") -> 2
               [] row.rating = Str("low") -> 1
               [] OTHER -> 0)
      [] key = "fileName" -> toLowerCase(row.fileName)
      [] OTHER -> lowerText(row[key])

\* av < bv
valueLess(av, bv, key) ==
    IF key \in {"uploadedAt", "rating"} THEN av < bv ELSE StringLess(av, bv)

\* the comparator handed to arr.sort
compareRows(a, b, key, dir) ==
    IF valueLess(sortValue(a, key), sortValue(b, key), key)
    THEN (IF dir = "asc" THEN -1 ELSE 1)
    ELSE IF valueLess(sortValue(b, key), sortValue(a, key), key)
    THEN (IF dir = "asc" THEN 1 ELSE -1)
    ELSE 0

\* Array.prototype.sort, which is stable: row after row is put behind the
\* last row that does not come after it
RECURSIVE sortRows(_, _, _, _)
sortRows(arr, n, key, dir) ==
    IF n = 0 THEN << >>
    ELSE LET done == sortRows(arr, n - 1, key, dir)
             at == Cardinality({i \in 1..Len(done) :
                                   compareRows(done[i], arr[n], key, dir) <= 0})
         IN  SubSeq(done, 1, at) \o << arr[n] >> \o SubSeq(done, at + 1, Len(done))

\* a row passes the search box and the rating filter
matches(r, q, ratingFilter) ==
    /\ \/ q = ""
       \/ Includes(toLowerCase(r.fileName), q)
       \/ Includes(lowerText(r.name), q)
       \/ Includes(lowerText(r.email), q)
    /\ ratingFilter = "all" \/ r.rating = Str(ratingFilter)

\* filtered
RECURSIVE filterRows(_, _, _, _)
filterRows(data, i, q, ratingFilter) ==
    IF i > Len(data) THEN << >>
    ELSE (IF matches(data[i], q, ratingFilter) THEN << data[i] >> ELSE << >>)
         \o filterRows(data, i + 1, q, ratingFilter)

filtered(t) == filterRows(t.data, 1, toLowerCase(Trim(t.query)), t.ratingFilter)

\* sorted
sorted(t) ==
    IF t.sortDir = "null" THEN filtered(t)
    ELSE sortRows(filtered(t), Len(filtered(t)), t.sortKey, t.sortDir)

\* the component rendered again after a handler
rendered(t, event) == [t EXCEPT !.rows = sorted(t), !.event = event]

(* setSort with two states only: ascending and descending *)
setSortTwoState(t, key) ==
    IF t.sortKey # key THEN [t EXCEPT !.sortKey = key, !.sortDir = "asc"]
    ELSE [t EXCEPT !.sortDir = IF @ = "asc" THEN "desc" ELSE "asc"]

\* setSort
setSort(t, key) ==
    IF t.sortKey # key THEN [t EXCEPT !.sortKey = key, !.sortDir = "asc"]
    ELSE [t EXCEPT !.sortDir = IF @ = "asc" THEN "desc"
                                ELSE IF @ = "desc" THEN "null" ELSE "asc"]

SortKeys == {"fileName", "name", "email", "rating", "uploadedAt"}

\* the rows the table is given
ResumeRows ==
    << [id |-> "1", fileName |-> "b.pdf", name |-> Str("Ann"),
        email |-> Str("ann@x.io"), rating |-> Str("high"), uploadedAt |-> "2024-01-02"],
       [id |-> "2", fileName |-> "A.pdf", name |-> Null, email |-> Null,
        rating |-> Null, uploadedAt |-> "2024-02-01"],
       [id |-> "3", fileName |-> "c.pdf", name |-> Str("bo"),
        email |-> Str("bo@x.io"), rating |-> Str("low"), uploadedAt |-> "2023-12-31"] >>

\* the data prop: the rows in each order
TableData ==
    {<< ResumeRows[p[1]], ResumeRows[p[2]], ResumeRows[p[3]] >> :
        p \in {q \in (1..3) \X (1..3) \X (1..3) :
                  q[1] # q[2] /\ q[1] # q[3] /\ q[2] # q[3]}}

InitTable ==
    /\ pastResumes \in {rendered([NoTable EXCEPT !.data = d], "mount") : d \in TableData}
    /\ uploader = NoUploads
    /\ ratingIn = Null
    /\ ratingOut = 0
    /\ sanIn = EmptyObj
    /\ sanOut = NoSanOut
    /\ ServerIdle
    /\ OthersIdle

\* a click on a column header; the header is there while rows are shown
SetSort ==
    /\ Len(pastResumes.rows) > 0
    /\ \E key \in SortKeys :
          pastResumes' = rendered(setSort(pastResumes, key), "setSort")
    /\ UNCHANGED << pureVars, otherVars, serverVars, uploader >>

\* typing in the search box
SetQuery ==
    /\ \E q \in {"", " PDF", "b", "zz"} :
          pastResumes' = rendered([pastResumes EXCEPT !.page = 1, !.query = q], "setQuery")
    /\ UNCHANGED << pureVars, otherVars, serverVars, uploader >>

\* the rating select
SetRatingFilter ==
    /\ \E f \in {"all", "high", "medium", "low"} :
          pastResumes' = rendered([pastResumes EXCEPT !.page = 1, !.ratingFilter = f],
                                  "setRatingFilter")
    /\ UNCHANGED << pureVars, otherVars, serverVars, uploader >>

NextTable == SetSort \/ SetQuery \/ SetRatingFilter

SpecTable == InitTable /\ [][NextTable]_vars

\* the rows of `rows' are rows of data, in the order they have in data
InDataOrder(rows, data) ==
    /\ \A i \in 1..Len(rows) : \E j \in 1..Len(data) : data[j] = rows[i]
    /\ \A i, j \in 1..Len(rows) :
          i < j => \A a, b \in 1..Len(data) :
                      (data[a] = rows[i] /\ data[b] = rows[j]) => a < b

\* C20: a click on the header of the sorted column takes its direction from
\* ascending to descending, from descending to unsorted and from unsorted to
\* ascending; a click on another header selects that column, ascending; and
\* while the table is unsorted the rows shown are the rows that pass the
\* filters, in the order of the data.
C20_SortTriState ==
    [][/\ pastResumes'.event = "setSort" =>
             \/ /\ pastResumes'.sortKey # pastResumes.sortKey
                /\ pastResumes'.sortDir = "asc"
             \/ /\ pastResumes'.sortKey = pastResumes.sortKey
                /\ << pastResumes.sortDir, pastResumes'.sortDir >> \in
                      {<< "asc", "desc" >>, << "desc", "null" >>, << "null", "asc" >>}
       /\ pastResumes'.sortDir = "null" =>
             /\ InDataOrder(pastResumes'.rows, pastResumes'.data)
             /\ \A i \in 1..Len(pastResumes'.data) :
                   (\E j \in 1..Len(pastResumes'.rows) :
                       pastResumes'.rows[j] = pastResumes'.data[i])
                   <=> matches(pastResumes'.data[i],
                               toLowerCase(Trim(pastResumes'.query)),
                               pastResumes'.ratingFilter)]_vars

\* the third click on the file column: unsorted, the three rows as given,
\* which is neither their ascending nor their descending order by file name
C20_Witness ==
    /\ pastResumes.event = "setSort"
    /\ pastResumes.sortKey = "fileName"
    /\ pastResumes.sortDir = "null"
    /\ pastResumes.data = ResumeRows
    /\ pastResumes.rows = ResumeRows

-----------------------------------------------------------------------------
(* Properties of the extraction *)

\* the last request was an upload that reached extractTextFromPDF
Extracted == Accepted /\ Len(stages) > 0 /\ stages[1] = "extract"

EmptyDocument ==
    "PDF appears to be empty or contains only images. Please upload a PDF with text content."

InsufficientContent ==
    "PDF contains very little text content. Please ensure the PDF is a proper resume document."

\* whitespace only, or no character at all
Blank(text) == \A i \in 1..Len(text) : Char(text, i) \in WhiteSpace

\* what extractTextFromPDF does with the text the collaborator extracted,
\* its length measured by measure(text)
ExtractionClassified(measure(_)) ==
    Extracted =>
       \A e \in {extractTextFromPDF(request.pdf)} :
          /\ request.pdf.ok =>
                /\ (~e.ok /\ e.error.message = EmptyDocument) <=> Blank(request.pdf.text)
                /\ (~e.ok /\ e.error.message = InsufficientContent)
                      <=> (~Blank(request.pdf.text) /\ measure(request.pdf.text) < 50)
                /\ (~Blank(request.pdf.text) /\ measure(request.pdf.text) >= 50)
                      => (e.ok /\ e.value = request.pdf.text)
          /\ ~e.ok => (e.error.name = "AppError" /\ e.error.statusCode = 400)
          /\ ~e.ok => stages = << "extract" >>

TextLength(text) == Len(text)

TrimmedLength(text) == Len(Trim(text))

\* C24 as stated: extractTextFromPDF fails with the empty-document error
\* exactly when the extracted text is empty or whitespace-only, with the
\* insufficient-content error exactly when the text is not whitespace-only
\* and its length is below 50, returns the text unchanged when its length is
\* at least 50 and it is not whitespace-only, and every extraction failure
\* is an AppError with status 400.
C24_ExtractionByLength == ExtractionClassified(TextLength)

\* C24, amended: the same classification with the length of the text taken
\* after trimming its leading and trailing whitespace.
C24_ExtractionByTrimmedLength == ExtractionClassified(TrimmedLength)

\* a text of 53 characters of which 49 remain after trimming was extracted
\* and refused
C24_Witness ==
    /\ Extracted
    /\ request.pdf.ok
    /\ Len(request.pdf.text) >= 50
    /\ Len(Trim(request.pdf.text)) < 50
    /\ stages = << "extract" >>
    /\ response.status >= 400

-----------------------------------------------------------------------------
(* Properties of the upload pipeline *)

\* the stages of an upload the controller accepted, in their order
Pipeline == << "extract", "invoke", "parse", "sanitize", "annotate", "insert", "respond" >>

IsPrefix(s, t) == Len(s) <= Len(t) /\ s = SubSeq(t, 1, Len(s))

Invocations == Cardinality({i \in 1..Len(stages) : stages[i] = "invoke"})

\* C23: the stages of an upload run in the order request validation, text
\* extraction, AI invocation, parse, sanitize, annotate, insert; a stage that
\* fails is the last one run (no AI invocation after a refused request or a
\* failed extraction, no insert after a failed stage), and the AI
\* collaborator is invoked at most once.
C23_PipelineFailClosed ==
    request.op = "upload" =>
       /\ IsPrefix(stages, Pipeline)
       /\ Invocations <= 1
       /\ ~Accepted => stages = << >>
       /\ (response.status = 400 /\ request.pdf = NotCalledPdf) => stages = << >>
       /\ (request.pdf # NotCalledPdf /\ ~extractTextFromPDF(request.pdf).ok)
             => stages = << "extract" >>
       /\ (request.ai # NotCalledAi /\ ~request.ai.ok)
             => stages = << "extract", "invoke" >>
       /\ (request.ai # NotCalledAi /\ ~analyzeWithAIOn[request.ai, apiKeySet].ok)
             => (~Inserted /\ stages[Len(stages)] \in {"invoke", "parse", "sanitize"})
       /\ (request.fault # NoFault) => stages[Len(stages)] = "insert"
       /\ Len(stages) < Len(Pipeline) => response.status >= 400

\* the AI answered with a text that does not parse: the upload stopped at
\* the parse stage
C23_Witness ==
    /\ request.op = "upload"
    /\ request.ai.ok
    /\ stages = << "extract", "invoke", "parse" >>
    /\ response.status >= 400

-----------------------------------------------------------------------------
(* Properties of the route resolution *)

\* C30: every static path the router declares is served by its own handler
\* and never by the /:id route: GET /stats is answered by the stats handler
\* and GET /health by the health handler of the module, with 200 and
\* success = true.
C30_StaticRoutesResolve ==
    request.op = "static" =>
       /\ response.op = request.id
       /\ request.id = "health" => (response.status = 200 /\ response.success)

-----------------------------------------------------------------------------
(* The delete dialog of PastResumes.  confirm is the state of that name;   *)
(* deleting.pending holds the rows whose onDelete promise has not settled. *)

MaxConfirms == 3

\* what a rejected onDelete rejects with: an Error with a message, an Error
\* with the empty message, or undefined
DeleteRejections ==
    {Obj([message |-> Str("Network Error")]), Obj([message |-> Str("")]), Undefined}

\* the dialog is rendered: confirm.open && confirm.row
modalShown(c) == c.open /\ c.row # Null

(* the buttons of the dialog are never disabled *)
buttonsNeverDisabled(c) == FALSE

\* disabled={confirm.working} on Cancel and on Delete
buttonsDisabled(c) == c.working

\* openDelete
openDelete(row) == [open |-> TRUE, row |-> row, working |-> FALSE, error |-> Undefined]

\* closeDelete
closeDelete == [open |-> FALSE, row |-> Null, working |-> FALSE, error |-> Undefined]

\* confirmDelete up to its await
confirmDeleteStart(c) == [c EXCEPT !.working = TRUE, !.error = Undefined]

\* e?.message ?? 'Failed to delete'
deleteErrorMessage(e) ==
    IF e.k \in {"undefined", "null"} THEN Str("Failed to delete")
    ELSE IF Prop(e, "message").k \in {"undefined", "null"} THEN Str("Failed to delete")
    ELSE Prop(e, "message")

\* confirmDelete from its await on: the try block ends or the catch block runs
confirmDeleteSettled(c, rejected, e) ==
    IF rejected THEN [c EXCEPT !.working = FALSE, !.error = deleteErrorMessage(e)]
    ELSE [open |-> FALSE, row |-> Null, working |-> FALSE, error |-> Undefined]

DialogEvent(kind, row, reason) == [kind |-> kind, row |-> row, reason |-> reason]

InitDialog ==
    /\ confirm = NoConfirm
    /\ deleting \in {[NoDeleting EXCEPT !.onDelete = given] : given \in BOOLEAN}
    /\ pastResumes = rendered([NoTable EXCEPT !.data = ResumeRows], "mount")
    /\ uploader = NoUploads
    /\ app = NoApp
    /\ retry = NoRetry
    /\ pool = NoPool
    /\ ratingIn = Null
    /\ ratingOut = 0
    /\ sanIn = EmptyObj
    /\ sanOut = NoSanOut
    /\ ServerIdle

\* a click on the delete button of a row; the dialog, once shown, covers
\* the table
OpenDelete ==
    /\ ~modalShown(confirm)
    /\ \E i \in 1..Len(pastResumes.rows) :
          /\ confirm' = openDelete(pastResumes.rows[i])
          /\ deleting' = [deleting EXCEPT !.event = DialogEvent("open", pastResumes.rows[i], Undefined)]
    /\ UNCHANGED << pureVars, serverVars, clientVars, app, retry, pool >>

\* a click on Cancel
CloseDelete ==
    /\ modalShown(confirm)
    /\ ~buttonsDisabled(confirm)
    /\ confirm' = closeDelete
    /\ deleting' = [deleting EXCEPT !.event = DialogEvent("cancel", confirm.row, Undefined)]
    /\ UNCHANGED << pureVars, serverVars, clientVars, app, retry, pool >>

\* a click on Delete: confirmDelete runs up to its await
ConfirmDelete ==
    /\ modalShown(confirm)
    /\ ~buttonsDisabled(confirm)
    /\ deleting.confirmed < MaxConfirms
    /\ confirm' = confirmDeleteStart(confirm)
    /\ deleting' = [deleting EXCEPT
                       !.pending = Append(@, confirm.row),
                       !.confirmed = @ + 1,
                       !.invoked = IF deleting.onDelete THEN @ + 1 ELSE @,
                       !.event = DialogEvent("confirm", confirm.row, Undefined)]
    /\ UNCHANGED << pureVars, serverVars, clientVars, app, retry, pool >>

\* the promise confirmDelete awaits settles; without the prop there is
\* nothing to reject it
DeleteSettles ==
    /\ Len(deleting.pending) > 0
    /\ \E rejected \in (IF deleting.onDelete THEN BOOLEAN ELSE {FALSE}) :
       \E e \in (IF rejected THEN DeleteRejections ELSE {Undefined}) :
          /\ confirm' = confirmDeleteSettled(confirm, rejected, e)
          /\ deleting' = [deleting EXCEPT
                             !.pending = Tail(@),
                             !.event = DialogEvent(IF rejected THEN "rejected" ELSE "resolved",
                                                   Head(deleting.pending), e)]
    /\ UNCHANGED << pureVars, serverVars, clientVars, app, retry, pool >>

NextDialog == OpenDelete \/ CloseDelete \/ ConfirmDelete \/ DeleteSettles

SpecDialog == InitDialog /\ [][NextDialog]_vars

-----------------------------------------------------------------------------
(* The App component.  app.probes holds, for each call of isServerReachable *)
(* in the order the calls were started, "pending" or what it resolved to;   *)
(* app.requests holds the ids of the getResumeById calls not yet answered.  *)

MaxProbes == 2
MaxSelections == 2

AppEvent(kind, n) == [kind |-> kind, n |-> n]

\* checkServerStatus up to its await
checkServerStatus(a) == [a EXCEPT !.probes = Append(@, "pending")]

\* loadStats up to its await
loadStats(a) == [a EXCEPT !.statsPending = @ + 1]

\* checkServerStatus from its await on
checkServerStatusSettled(a, outcome) ==
    CASE outcome = "reachable" -> [a EXCEPT !.serverStatus = "online", !.error = Null]
      [] outcome = "unreachable" ->
            [a EXCEPT !.serverStatus = "offline",
                      !.error = Str("Unable to connect to the server. Please check if the backend is running.")]
      [] OTHER ->
            [a EXCEPT !.serverStatus = "offline",
                      !.error = Str("Server connection failed. Please try again later.")]

\* loadStats from its await on
loadStatsSettled(a, loaded) ==
    IF loaded THEN [a EXCEPT !.statsPending = @ - 1,
                             !.stats = Obj([total_resumes |-> IntNum(0)])]
    ELSE [a EXCEPT !.statsPending = @ - 1]

\* the effect that runs once App is mounted
mountEffect(a) == loadStats(checkServerStatus([a EXCEPT !.mounted = TRUE]))

(* retryConnection that starts no probe *)
retryConnectionNoProbe(a) ==
    loadStats([a EXCEPT !.serverStatus = "checking", !.error = Null])

\* retryConnection
retryConnection(a) ==
    loadStats(checkServerStatus([a EXCEPT !.serverStatus = "checking", !.error = Null]))

\* handleTabChange
handleTabChange(a, tab) == [a EXCEPT !.activeTab = tab, !.error = Null]

\* handleSelectResume up to its await
handleSelectResume(a, resumeId) ==
    IF ~Truthy(resumeId) THEN a
    ELSE [a EXCEPT !.loading = TRUE, !.selectedResumeId = resumeId,
                   !.requests = Append(@, resumeId), !.cancelled = FALSE]

\* what getResumeById answers for an id
DetailOutcomes(resumeId) ==
    {[ok |-> TRUE, success |-> TRUE, data |-> Obj([id |-> resumeId]), message |-> ""],
     [ok |-> TRUE, success |-> FALSE, data |-> Null, message |-> "Resume not found"],
     [ok |-> TRUE, success |-> FALSE, data |-> Null, message |-> ""],
     [ok |-> FALSE, success |-> FALSE, data |-> Null, message |-> "Network Error"]}

\* handleSelectResume from its await on
handleSelectResumeSettled(a, answer) ==
    IF answer.ok /\ answer.success
    THEN [a EXCEPT !.selectedResumeData = answer.data, !.showResumeModal = TRUE,
                   !.loading = FALSE]
    ELSE [a EXCEPT !.error = Str(IF answer.message = ""
                                 THEN "Failed to load resume details"
                                 ELSE answer.message),
                   !.loading = FALSE]

\* closeResumeModal
closeResumeModal(a) ==
    [a EXCEPT !.showResumeModal = FALSE, !.selectedResumeData = Null,
              !.selectedResumeId = Null, !.cancelled = TRUE]

\* what App renders
retryShown(a) == a.serverStatus # "online"
uploaderShown(a) == a.activeTab = "upload" /\ a.serverStatus = "online"
tableShown(a) == a.activeTab = "history" /\ a.serverStatus = "online"
detailsShown(a) == a.showResumeModal /\ a.selectedResumeData.k # "null"

Without(seq, i) == SubSeq(seq, 1, i - 1) \o SubSeq(seq, i + 1, Len(seq))

InitApp ==
    /\ app = NoApp
    /\ confirm = NoConfirm
    /\ deleting = NoDeleting
    /\ retry = NoRetry
    /\ pool = NoPool
    /\ ClientIdle
    /\ ratingIn = Null
    /\ ratingOut = 0
    /\ sanIn = EmptyObj
    /\ sanOut = NoSanOut
    /\ ServerIdle

Mount ==
    /\ ~app.mounted
    /\ app' = [mountEffect(app) EXCEPT !.event = AppEvent("mount", 1)]
    /\ UNCHANGED << pureVars, serverVars, clientVars, confirm, deleting, retry, pool >>

\* a click on a retry button
RetryConnection ==
    /\ app.mounted
    /\ retryShown(app)
    /\ Len(app.probes) < MaxProbes
    /\ app' = [retryConnection(app) EXCEPT !.event = AppEvent("retry", Len(app.probes) + 1)]
    /\ UNCHANGED << pureVars, serverVars, clientVars, confirm, deleting, retry, pool >>

\* a call of isServerReachable resolves; it rejects with nothing
ProbeResolves ==
    /\ \E n \in 1..Len(app.probes) :
       \E outcome \in {"reachable", "unreachable"} :
          /\ app.probes[n] = "pending"
          /\ app' = [checkServerStatusSettled(app, outcome) EXCEPT
                        !.probes[n] = outcome, !.event = AppEvent("probe", n)]
    /\ UNCHANGED << pureVars, serverVars, clientVars, confirm, deleting, retry, pool >>

StatsSettle ==
    /\ app.statsPending > 0
    /\ \E loaded \in BOOLEAN :
          app' = [loadStatsSettled(app, loaded) EXCEPT !.event = AppEvent("stats", 0)]
    /\ UNCHANGED << pureVars, serverVars, clientVars, confirm, deleting, retry, pool >>

\* a click on a tab
TabChange ==
    /\ app.mounted
    /\ ~detailsShown(app)
    /\ \E tab \in {"upload", "history"} :
          app' = [handleTabChange(app, tab) EXCEPT !.event = AppEvent("tab", 0)]
    /\ UNCHANGED << pureVars, serverVars, clientVars, confirm, deleting, retry, pool >>

\* a row of the table is selected; the details, once shown, cover the page
SelectResume ==
    /\ tableShown(app)
    /\ ~detailsShown(app)
    /\ app.selections < MaxSelections
    /\ \E resumeId \in {IntNum(1), IntNum(2)} :
          app' = [handleSelectResume(app, resumeId) EXCEPT
                     !.selections = @ + 1, !.event = AppEvent("select", resumeId.v)]
    /\ UNCHANGED << pureVars, serverVars, clientVars, confirm, deleting, retry, pool >>

\* a call of getResumeById settles
DetailsArrive ==
    /\ \E i \in 1..Len(app.requests) :
       \E answer \in DetailOutcomes(app.requests[i]) :
          app' = [handleSelectResumeSettled(app, answer) EXCEPT
                     !.requests = Without(@, i),
                     !.event = AppEvent("details", app.requests[i].v)]
    /\ UNCHANGED << pureVars, serverVars, clientVars, confirm, deleting, retry, pool >>

\* a click on the overlay or on the close button of the details
CloseModal ==
    /\ detailsShown(app)
    /\ app' = [closeResumeModal(app) EXCEPT !.event = AppEvent("close", 0)]
    /\ UNCHANGED << pureVars, serverVars, clientVars, confirm, deleting, retry, pool >>

NextApp ==
    \/ Mount \/ RetryConnection \/ ProbeResolves \/ StatsSettle
    \/ TabChange \/ SelectResume \/ DetailsArrive \/ CloseModal

SpecApp == InitApp /\ [][NextApp]_vars

NoProbePending == \A n \in 1..Len(app.probes) : app.probes[n] # "pending"

\* serverStatus and the banner as a probe that resolved to outcome sets them
StatusOf(outcome) ==
    /\ app.serverStatus = (IF outcome = "reachable" THEN "online" ELSE "offline")
    /\ (app.error.k = "null") <=> (outcome = "reachable")

\* C22: serverStatus starts as 'checking'; the mount and every retry start a
\* probe; when a probe resolves serverStatus is 'online' if the server was
\* reachable and 'offline' otherwise, the error banner set exactly in the
\* offline case; serverStatus is not 'checking' once every started probe has
\* resolved; the uploader and the table are rendered only while it is
\* 'online'.
C22_ServerStatusBanner ==
    /\ ~app.mounted => (app.serverStatus = "checking" /\ app.probes = << >>)
    /\ app.event.kind \in {"mount", "retry"} =>
          /\ Len(app.probes) = app.event.n
          /\ app.probes[app.event.n] = "pending"
          /\ app.serverStatus = "checking"
    /\ app.event.kind = "probe" => StatusOf(app.probes[app.event.n])
    /\ (app.mounted /\ NoProbePending) => app.serverStatus # "checking"
    /\ (uploaderShown(app) \/ tableShown(app)) => app.serverStatus = "online"

\* the retry after an unreachable server finds it unreachable again
C22_Witness ==
    /\ app.event = AppEvent("probe", 2)
    /\ app.probes = << "unreachable", "unreachable" >>
    /\ app.serverStatus = "offline"

\* C28: when a retry is started while an earlier probe is in flight, then
\* once all probes have resolved serverStatus and the error banner are those
\* of the probe started last.
C28_LatestProbeWins ==
    (app.event.kind = "probe" /\ NoProbePending) => StatusOf(app.probes[Len(app.probes)])

\* C27: whenever the details are shown their data belongs to
\* selectedResumeId, and after closeResumeModal they stay closed until a
\* resume is selected again.
C27_DetailsOfSelected ==
    detailsShown(app) =>
       /\ ~app.cancelled
       /\ Prop(app.selectedResumeData, "id") = app.selectedResumeId

-----------------------------------------------------------------------------
(* retryApiCall.  retry.pc is "loop" at the test of the for loop, "await"   *)
(* while apiCall() is pending, "sleep" while the timer of the delay is      *)
(* pending, "returned" or "thrown" once the call has settled; delay is the  *)
(* fraction n/d of milliseconds; invocations counts the calls of apiCall,   *)
(* inflight those that have not settled, errors holds what they rejected    *)
(* with.                                                                    *)

MaxRetryArg == 2
DefaultMaxRetries == 3
DefaultDelay == 1000

\* the maxRetries a caller passes; none passed is the default
RetryArgs == (-1..MaxRetryArg) \cup {DefaultMaxRetries}

\* retryApiCall(apiCall, maxRetries) up to the loop
retryApiCall(maxRetries) ==
    [pc |-> "loop", maxRetries |-> maxRetries, delay |-> [n |-> DefaultDelay, d |-> 1],
     i |-> 0, lastError |-> "undefined", invocations |-> 0, inflight |-> 0,
     errors |-> << >>, result |-> "undefined"]

(* one attempt too many *)
loopTestOffByOne(t) == t.i <= t.maxRetries + 1

\* i <= maxRetries
loopTest(t) == t.i <= t.maxRetries

\* the loop test, then apiCall() or the throw behind the loop
retryStep(t) ==
    IF loopTest(t)
    THEN [t EXCEPT !.pc = "await", !.invocations = @ + 1, !.inflight = @ + 1]
    ELSE [t EXCEPT !.pc = "thrown", !.result = t.lastError]

\* apiCall() resolved: return result
retryResolved(t, value) ==
    [t EXCEPT !.pc = "returned", !.result = value, !.inflight = @ - 1]

\* apiCall() rejected: the catch block up to its await, or to the next turn
retryRejected(t, error) ==
    IF t.i < t.maxRetries
    THEN [t EXCEPT !.pc = "sleep", !.lastError = error, !.errors = Append(@, error),
                   !.inflight = @ - 1]
    ELSE [t EXCEPT !.pc = "loop", !.lastError = error, !.errors = Append(@, error),
                   !.inflight = @ - 1, !.i = @ + 1]

\* the timer fired: delay *= 1.5, then i++
retrySlept(t) ==
    [t EXCEPT !.pc = "loop", !.delay = [n |-> 3 * @.n, d |-> 2 * @.d], !.i = @ + 1]

InitRetry ==
    /\ retry \in {retryApiCall(m) : m \in RetryArgs}
    /\ app = NoApp
    /\ confirm = NoConfirm
    /\ deleting = NoDeleting
    /\ pool = NoPool
    /\ ClientIdle
    /\ ratingIn = Null
    /\ ratingOut = 0
    /\ sanIn = EmptyObj
    /\ sanOut = NoSanOut
    /\ ServerIdle

RetryStep ==
    /\ retry.pc = "loop"
    /\ retry' = retryStep(retry)
    /\ UNCHANGED << pureVars, serverVars, clientVars, confirm, deleting, app, pool >>

CallResolves ==
    /\ retry.pc = "await"
    /\ \E value \in {"r1", "r2"} : retry' = retryResolved(retry, value)
    /\ UNCHANGED << pureVars, serverVars, clientVars, confirm, deleting, app, pool >>

CallRejects ==
    /\ retry.pc = "await"
    /\ \E error \in {"e1", "e2"} : retry' = retryRejected(retry, error)
    /\ UNCHANGED << pureVars, serverVars, clientVars, confirm, deleting, app, pool >>

TimerFires ==
    /\ retry.pc = "sleep"
    /\ retry' = retrySlept(retry)
    /\ UNCHANGED << pureVars, serverVars, clientVars, confirm, deleting, app, pool >>

NextRetry == RetryStep \/ CallResolves \/ CallRejects \/ TimerFires

\* every call of apiCall settles and every timer fires
SpecRetry == InitRetry /\ [][NextRetry]_vars /\ WF_vars(NextRetry)

RetrySettled == retry.pc \in {"returned", "thrown"}

\* C25: retryApiCall terminates; it invokes apiCall at most maxRetries + 1
\* times, one call at a time; it returns the first result and then calls no
\* more; and when every call failed it rejects with the last error.
C25_RetryTerminates ==
    /\ <>RetrySettled
    /\ [](/\ retry.invocations <= Max({0, retry.maxRetries + 1})
          /\ retry.inflight <= 1
          /\ retry.inflight = 1 <=> retry.pc = "await"
          /\ retry.pc = "returned" =>
                /\ retry.invocations = Len(retry.errors) + 1
                /\ retry.result \in {"r1", "r2"}
          /\ retry.pc = "thrown" =>
                /\ retry.invocations = Len(retry.errors)
                /\ retry.invocations = Max({0, retry.maxRetries + 1})
                /\ retry.result = (IF retry.errors = << >> THEN "undefined"
                                   ELSE retry.errors[Len(retry.errors)]))
    /\ [][RetrySettled => UNCHANGED retry]_vars

\* three calls failed, the last with e2: the call rejected with e2
C25_Witness ==
    /\ retry.pc = "thrown"
    /\ retry.maxRetries = 2
    /\ retry.errors = << "e1", "e1", "e2" >>
    /\ retry.result = "e2"

-----------------------------------------------------------------------------
(* The persistence gateway.  pool.checkedOut counts the clients that were  *)
(* acquired with pool.connect() and not released; pool.last tells, for the *)
(* call that ended last, how many clients it acquired and released.  A     *)
(* call is given, step by step, whether the step succeeds.                 *)

PoolMax == 20

\* what a call of the gateway did
Ended(op, acquired, released, outcome) ==
    [op |-> op, acquired |-> acquired, released |-> released, outcome |-> outcome]

\* testConnection: connect, query, release; any error is caught
testConnection(ok) ==
    IF ~ok.connect THEN Ended("testConnection", 0, 0, "false")
    ELSE IF ~ok.first THEN Ended("testConnection", 1, 0, "false")
    ELSE Ended("testConnection", 1, 1, "true")

\* initializeDatabase: connect, three queries, release; any error is caught
initializeDatabase(ok) ==
    IF ~ok.connect THEN Ended("initializeDatabase", 0, 0, "false")
    ELSE IF ~(ok.first /\ ok.second /\ ok.third)
    THEN Ended("initializeDatabase", 1, 0, "false")
    ELSE Ended("initializeDatabase", 1, 1, "true")

\* query: connect, then the query in try ... finally release
query(ok) ==
    IF ~ok.connect THEN Ended("query", 0, 0, "thrown")
    ELSE IF ~ok.first THEN Ended("query", 1, 1, "thrown")
    ELSE Ended("query", 1, 1, "result")

\* transaction: connect, then BEGIN, callback, COMMIT, with ROLLBACK in the
\* catch block and release in the finally block
transaction(ok) ==
    IF ~ok.connect THEN Ended("transaction", 0, 0, "thrown")
    ELSE IF ok.first /\ ok.second /\ ok.third THEN Ended("transaction", 1, 1, "result")
    ELSE Ended("transaction", 1, 1, "thrown")

gatewayCall(op, ok) ==
    CASE op = "testConnection" -> testConnection(ok)
      [] op = "initializeDatabase" -> initializeDatabase(ok)
      [] op = "query" -> query(ok)
      [] op = "transaction" -> transaction(ok)

GatewayOps == {"testConnection", "initializeDatabase", "query", "transaction"}

\* the steps of a call: pool.connect() and up to three statements
StepOutcomes == [connect : BOOLEAN, first : BOOLEAN, second : BOOLEAN, third : BOOLEAN]

InitPool ==
    /\ pool = NoPool
    /\ app = NoApp
    /\ confirm = NoConfirm
    /\ deleting = NoDeleting
    /\ retry = NoRetry
    /\ ClientIdle
    /\ ratingIn = Null
    /\ ratingOut = 0
    /\ sanIn = EmptyObj
    /\ sanOut = NoSanOut
    /\ ServerIdle

\* one call of the gateway from its start to its end; with every client
\* checked out pool.connect() rejects after connectionTimeoutMillis
GatewayCall ==
    /\ \E op \in GatewayOps :
       \E ok \in StepOutcomes :
       \E ended \in {gatewayCall(op, ok)} :
          /\ pool.checkedOut = PoolMax => ~ok.connect
          /\ pool' = [checkedOut |-> pool.checkedOut + ended.acquired - ended.released,
                      last |-> ended]
    /\ UNCHANGED << pureVars, serverVars, clientVars, confirm, deleting, app, retry >>

NextPool == GatewayCall

SpecPool == InitPool /\ [][NextPool]_vars

\* C26: every call of query, transaction, testConnection and
\* initializeDatabase releases each client it acquired exactly once, whether
\* it succeeds or fails, and the pool of 20 connections is never exhausted.
C26_NoConnectionLeak ==
    /\ pool.last.released = pool.last.acquired
    /\ pool.checkedOut = 0
    /\ pool.checkedOut < PoolMax

-----------------------------------------------------------------------------
(* The pagination of PastResumes.  pastResumes.page is the page state; the *)
(* page shown is pageClamped.                                              *)

MaxPageRows == 11

\* Math.max(1, Math.ceil(sorted.length / pageSize))
totalPages(t) == Max({1, (Len(t.rows) + t.pageSize - 1) \div t.pageSize})

\* Math.min(page, totalPages)
pageClamped(t) == Min({t.page, totalPages(t)})

\* sorted.slice(start, start + pageSize)
pageItems(t) ==
    SubSeq(t.rows, (pageClamped(t) - 1) * t.pageSize + 1,
           Min({Len(t.rows), pageClamped(t) * t.pageSize}))

\* the options of the page-size select
PageSizes == {5, 10, 20, 50}

\* the i-th row the parent holds
PageRow(i) ==
    [id |-> NatToString(i), fileName |-> "r" \o NatToString(i) \o ".pdf",
     name |-> IF i % 2 = 1 THEN Str("bo") ELSE Null, email |-> Null,
     rating |-> IF i % 4 = 0 THEN Str("low") ELSE Str("high"),
     uploadedAt |-> "2024-01-" \o NatToString(10 + i)]

\* the data prop with n rows
PageRows(n) == [i \in 1..n |-> PageRow(i)]

\* the handlers of the pagination buttons
firstPage(t) == [t EXCEPT !.page = 1]
prevPage(t) == [t EXCEPT !.page = Max({1, @ - 1})]
numberedPage(t, n) == [t EXCEPT !.page = n]
nextPage(t) == [t EXCEPT !.page = Min({totalPages(t), @ + 1})]
lastPage(t) == [t EXCEPT !.page = totalPages(t)]

\* the handler of the page-size select
setPageSize(t, n) == [t EXCEPT !.page = 1, !.pageSize = n]

InitPages ==
    /\ pastResumes \in {rendered([NoTable EXCEPT !.data = PageRows(n)], "mount") :
                          n \in {0, MaxPageRows}}
    /\ uploader = NoUploads
    /\ OthersIdle
    /\ ratingIn = Null
    /\ ratingOut = 0
    /\ sanIn = EmptyObj
    /\ sanOut = NoSanOut
    /\ ServerIdle

\* the parent hands over the data with a row more or a row less
DataChanges ==
    /\ \E n \in {Len(pastResumes.data) - 1, Len(pastResumes.data) + 1} :
          /\ n \in 0..MaxPageRows
          /\ pastResumes' = rendered([pastResumes EXCEPT !.data = PageRows(n)], "data")
    /\ UNCHANGED << pureVars, otherVars, serverVars, uploader >>

SetPageSize ==
    /\ \E n \in PageSizes :
          pastResumes' = rendered(setPageSize(pastResumes, n), "setPageSize")
    /\ UNCHANGED << pureVars, otherVars, serverVars, uploader >>

\* First and Prev are disabled on the first page shown; the buttons are
\* there while rows are shown
ClickFirst ==
    /\ Len(pastResumes.rows) > 0
    /\ pageClamped(pastResumes) # 1
    /\ pastResumes' = rendered(firstPage(pastResumes), "first")
    /\ UNCHANGED << pureVars, otherVars, serverVars, uploader >>

ClickPrev ==
    /\ Len(pastResumes.rows) > 0
    /\ pageClamped(pastResumes) # 1
    /\ pastResumes' = rendered(prevPage(pastResumes), "prev")
    /\ UNCHANGED << pureVars, otherVars, serverVars, uploader >>

\* one button for each of the first seven pages
ClickNumber ==
    /\ Len(pastResumes.rows) > 0
    /\ \E n \in 1..Min({7, totalPages(pastResumes)}) :
          pastResumes' = rendered(numberedPage(pastResumes, n), "number")
    /\ UNCHANGED << pureVars, otherVars, serverVars, uploader >>

\* Next and Last are disabled on the last page shown
ClickNext ==
    /\ Len(pastResumes.rows) > 0
    /\ pageClamped(pastResumes) # totalPages(pastResumes)
    /\ pastResumes' = rendered(nextPage(pastResumes), "next")
    /\ UNCHANGED << pureVars, otherVars, serverVars, uploader >>

ClickLast ==
    /\ Len(pastResumes.rows) > 0
    /\ pageClamped(pastResumes) # totalPages(pastResumes)
    /\ pastResumes' = rendered(lastPage(pastResumes), "last")
    /\ UNCHANGED << pureVars, otherVars, serverVars, uploader >>

NextPages ==
    \/ DataChanges \/ SetQuery \/ SetRatingFilter \/ SetPageSize
    \/ ClickFirst \/ ClickPrev \/ ClickNumber \/ ClickNext \/ ClickLast

SpecPages == InitPages /\ [][NextPages]_vars

\* C29: after any data change, search, filter change, page-size change or
\* page click the page shown is within 1..totalPages; a search, a filter
\* change and a page-size change show page 1; a click on Prev shows the page
\* before the one shown, a click on Next the page after it.
C29_Pagination ==
    [][/\ pageClamped(pastResumes') \in 1..totalPages(pastResumes')
       /\ pastResumes'.event \in {"setQuery", "setRatingFilter", "setPageSize"}
             => pageClamped(pastResumes') = 1
       /\ pastResumes'.event = "prev"
             => pageClamped(pastResumes') = pageClamped(pastResumes) - 1
       /\ pastResumes'.event = "next"
             => pageClamped(pastResumes') = pageClamped(pastResumes) + 1]_vars

====
